---- MODULE Spec2Model ----
(***************************************************************************)
(* The Magic Formula scoring engine of calculate_magic_formula.py:         *)
(* the eligibility classifier (is_financial_company,                       *)
(* meets_market_cap_threshold), the fundamental extractor and rank         *)
(* combiner (calculate_magic_formula_for_stocks) and the variant           *)
(* orchestration (calculate_all_score_variants, recalculate_all_scores).   *)
(*                                                                         *)
(* Python values are tagged records, so that a number, the "N/A" string,   *)
(* None and an absent dict key stay distinguishable.  Text that the code   *)
(* searches with `in` is a sequence of one-character strings; text that    *)
(* the code only stores is a sequence of longer chunks.  Money amounts are *)
(* integers in units of 10 MSEK (1e7 SEK), so 4.9e8 SEK is 49.  A float    *)
(* quotient p/q is kept as the pair (p, q) and compared by cross           *)
(* multiplication.                                                         *)
(***************************************************************************)
EXTENDS FiniteSets, Integers, Sequences, TLC

VARIABLES stocks, exc, last, prev, raised, history, today

vars == <<stocks, exc, last, prev, raised, history, today>>

(***************************************************************************)
(* Python values                                                           *)
(***************************************************************************)
None == [t |-> "None"]
Absent == [t |-> "absent"]
Bool(b) == [t |-> "bool", b |-> b]
Num(n) == [t |-> "num", n |-> n]
Frac(p, q) == [t |-> "frac", p |-> p, q |-> q]
Str(s) == [t |-> "str", s |-> s]
List(l) == [t |-> "list", l |-> l]
Dict(d) == [t |-> "dict", d |-> d]

NA == Str(<<"N/A">>)
EmptyStr == Str(<<>>)

\* dict.get(key, default): the default only when the key is absent
Get(v, default) == IF v = Absent THEN default ELSE v

\* bool(v)
Truthy(v) ==
    CASE v.t = "None" -> FALSE
      [] v.t = "absent" -> FALSE
      [] v.t = "bool" -> v.b
      [] v.t = "num" -> v.n # 0
      [] v.t = "frac" -> v.p # 0
      [] v.t = "str" -> Len(v.s) > 0
      [] v.t = "list" -> Len(v.l) > 0
      [] v.t = "dict" -> TRUE

\* isinstance(v, (int, float)); a bool is an int in Python
IsNumber(v) == v.t \in {"num", "frac", "bool"}

\* the integer a number stands for (model amounts are integers)
NumVal(v) == IF v.t = "bool" THEN (IF v.b THEN 1 ELSE 0) ELSE v.n

Abs(n) == IF n < 0 THEN -n ELSE n

(***************************************************************************)
(* Text: str.lower() and the substring test `k in s`                       *)
(***************************************************************************)
lowerMap ==
    [c \in {"A","B","C","D","E","F","G","H","I","J","K","L","M","N","O","P",
            "Q","R","S","T","U","V","W","X","Y","Z"} |->
        CASE c = "A" -> "a" [] c = "B" -> "b" [] c = "C" -> "c" [] c = "D" -> "d"
          [] c = "E" -> "e" [] c = "F" -> "f" [] c = "G" -> "g" [] c = "H" -> "h"
          [] c = "I" -> "i" [] c = "J" -> "j" [] c = "K" -> "k" [] c = "L" -> "l"
          [] c = "M" -> "m" [] c = "N" -> "n" [] c = "O" -> "o" [] c = "P" -> "p"
          [] c = "Q" -> "q" [] c = "R" -> "r" [] c = "S" -> "s" [] c = "T" -> "t"
          [] c = "U" -> "u" [] c = "V" -> "v" [] c = "W" -> "w" [] c = "X" -> "x"
          [] c = "Y" -> "y" [] c = "Z" -> "z"]

Lower(s) ==
    [i \in 1..Len(s) |-> IF s[i] \in DOMAIN lowerMap THEN lowerMap[s[i]] ELSE s[i]]

Contains(k, s) ==
    \E i \in 1..(Len(s) - Len(k) + 1) : SubSeq(s, i, i + Len(k) - 1) = k

AnyIn(keywords, s) == \E k \in keywords : Contains(k, s)

\* (stock.get(field, "") or "").lower()
LowerOrEmpty(v) == IF Truthy(v) THEN Lower(v.s) ELSE <<>>

kw_financial == <<"f","i","n","a","n","c","i","a","l">>
kw_financial_services ==
    <<"f","i","n","a","n","c","i","a","l"," ","s","e","r","v","i","c","e","s">>
kw_real_estate == <<"r","e","a","l"," ","e","s","t","a","t","e">>
kw_investment == <<"i","n","v","e","s","t","m","e","n","t">>
kw_asset_management ==
    <<"a","s","s","e","t"," ","m","a","n","a","g","e","m","e","n","t">>
kw_ratos == <<"r","a","t","o","s">>
kw_lund == <<"l","u","n","d">>

bank_keywords ==
    { <<"b","a","n","k">>, <<"b","a","n","k","i","n","g">>,
      <<"b","a","n","k","e","r">> }

bank_names ==
    { <<"t","f"," ","b","a","n","k">>, <<"r","e","s","u","r","s">>,
      <<"n","o","r","d","e","a">>, <<"s","w","e","d","b","a","n","k">>,
      <<"s","e","b">>, <<"h","a","n","d","e","l","s","b","a","n","k","e","n">>,
      <<"s","h","b">>,
      <<"s","v","e","n","s","k","a"," ","h","a","n","d","e","l","s","b","a","n","k","e","n">>,
      <<"s","k","a","n","d","i","n","a","v","i","s","k","a"," ","e","n","s","k","i","l","d","a"," ","b","a","n","k","e","n">> }

bank_tickers ==
    { <<"t","f","b","a","n","k">>, <<"t","f","-","b","a","n","k">>,
      <<"r","e","s","u","r","s">>, <<"n","d","a">>, <<"s","w","e","d">>,
      <<"s","e","b">>, <<"s","h","b">>, <<"h","a","n","d","l">> }

investment_keywords ==
    { kw_investment, <<"i","n","v","e","s","t","o","r">>,
      <<"h","o","l","d","i","n","g">>, <<"e","q","u","i","t","y">>,
      kw_ratos, <<"l","u","n","d","b","e","r","g">> }

(***************************************************************************)
(* Eligibility classifier                                                  *)
(***************************************************************************)
\* the keyword rules of is_financial_company on the four lowered texts
TextRules(sector, industry, name, ticker) ==
    \/ Contains(kw_financial, sector) \/ Contains(kw_financial_services, sector)
    \/ Contains(kw_real_estate, sector) \/ Contains(kw_real_estate, industry)
    \/ AnyIn(bank_keywords, sector)
    \/ AnyIn(bank_keywords, industry)
    \/ AnyIn(bank_keywords, name)
    \/ AnyIn(bank_names, name)
    \/ AnyIn(bank_tickers, ticker)
    \/ AnyIn(investment_keywords, name)
    \/ Contains(kw_ratos, ticker) \/ Contains(kw_lund, ticker)
    \/ Contains(kw_investment, industry)
    \/ Contains(kw_asset_management, Lower(industry))

\* the texts of the model's records: ticker list, names, sector, industry
tickers ==
    << <<"V","O","L","V">>, <<"E","R","I","C">>, <<"S","K","F">>,
       <<"A","B","B">>, <<"A","L","F","A">> >>

name_plain == <<"V","e","r","k"," ","A","B">>
name_bank == <<"X","Y","Z"," ","B","a","n","k"," ","A","B">>
sector_industrials == <<"I","n","d","u","s","t","r","i","a","l","s">>
industry_specialty == <<"S","p","e","c","i","a","l","t","y">>

\* (sector, industry, name, ticker) of the model's records
TextKeys ==
    { <<Str(sector_industrials), Str(industry_specialty), Str(name), Str(tickers[k])>> :
        name \in {name_plain, name_bank}, k \in 1..Len(tickers) }

\* the keyword rules, evaluated once for each of these
financial_by_text ==
    [key \in TextKeys |->
        TextRules(LowerOrEmpty(key[1]), LowerOrEmpty(key[2]),
                  LowerOrEmpty(key[3]), LowerOrEmpty(key[4]))]

\* variant: only the explicit flags, the keyword rules dropped
is_financial_by_flags(stock) ==
    Truthy(stock.default_excluded) \/ Truthy(stock.exclusion_reason)

is_financial_company(stock) ==
    LET key == <<stock.sector, stock.industry, stock.name, stock.ticker>> IN
    \/ Truthy(stock.default_excluded)
    \/ Truthy(stock.exclusion_reason)
    \/ IF key \in TextKeys THEN financial_by_text[key]
       ELSE TextRules(LowerOrEmpty(stock.sector), LowerOrEmpty(stock.industry),
                      LowerOrEmpty(stock.name), LowerOrEmpty(stock.ticker))

\* variant: the floor is a ceiling
meets_market_cap_ceiling(stock, min_market_cap) ==
    LET market_cap == Get(stock.market_cap, NA) IN
    IF market_cap = NA \/ market_cap = None THEN FALSE
    ELSE IF ~IsNumber(market_cap) THEN FALSE
    ELSE NumVal(market_cap) <= min_market_cap

\* variant: the floor itself does not qualify
meets_market_cap_strictly(stock, min_market_cap) ==
    LET market_cap == Get(stock.market_cap, NA) IN
    IF market_cap = NA \/ market_cap = None THEN FALSE
    ELSE IF ~IsNumber(market_cap) THEN FALSE
    ELSE NumVal(market_cap) > min_market_cap

meets_market_cap_threshold(stock, min_market_cap) ==
    LET market_cap == Get(stock.market_cap, NA) IN
    IF market_cap = NA \/ market_cap = None THEN FALSE
    ELSE IF ~IsNumber(market_cap) THEN FALSE
    ELSE NumVal(market_cap) >= min_market_cap

(***************************************************************************)
(* Formatting and parsing                                                  *)
(***************************************************************************)
\* str(v) inside an f-string, as text chunks
Format(v) ==
    CASE v.t = "str" -> v.s
      [] v.t = "None" -> <<"None">>
      [] v.t = "num" -> <<ToString(v.n)>>
      [] OTHER -> <<ToString(v)>>

digitValue ==
    [c \in {"0","1","2","3","4","5","6","7","8","9"} |->
        CASE c = "0" -> 0 [] c = "1" -> 1 [] c = "2" -> 2 [] c = "3" -> 3
          [] c = "4" -> 4 [] c = "5" -> 5 [] c = "6" -> 6 [] c = "7" -> 7
          [] c = "8" -> 8 [] c = "9" -> 9]

IsDigits(s) == Len(s) > 0 /\ \A i \in 1..Len(s) : s[i] \in DOMAIN digitValue

RECURSIVE DigitsValue(_)
DigitsValue(s) ==
    IF Len(s) = 0 THEN 0
    ELSE 10 * DigitsValue(SubSeq(s, 1, Len(s) - 1)) + digitValue[s[Len(s)]]

\* float(ev): the value, or the exception float() raises
ToFloat(ev) ==
    CASE ev.t \in {"num", "bool"} -> [exc |-> "none", val |-> NumVal(ev)]
      [] ev.t = "str" ->
            IF IsDigits(ev.s) THEN [exc |-> "none", val |-> DigitsValue(ev.s)]
            ELSE [exc |-> "ValueError", val |-> 0]
      [] OTHER -> [exc |-> "TypeError", val |-> 0]

\* f"{x/1e6:.1f}M" for an amount x in units of 10 MSEK: x*10 million, one decimal
FormatMillions(x) == ToString(x * 10) \o ".0M"

(***************************************************************************)
(* Fundamental extractor                                                   *)
(***************************************************************************)
RECURSIVE SumQuarters(_, _, _)
\* the loop of calculate_ttm_from_quarterly over quarters_to_use[k..]
SumQuarters(quarters, field_name, k) ==
    IF k > Len(quarters) THEN [ttm_value |-> 0, periods |-> <<>>]
    ELSE LET rest == SumQuarters(quarters, field_name, k + 1)
             quarter == quarters[k]
             value == IF quarter.t = "dict" THEN Get(quarter.d[field_name], None)
                      ELSE None
         IN IF quarter.t = "dict" /\ value # None /\ IsNumber(value)
            THEN [ttm_value |-> NumVal(value) + rest.ttm_value,
                  periods |-> <<Get(quarter.d.period, Str(<<"Unknown">>))>> \o rest.periods]
            ELSE rest

\* the checks after the loop, and the period range of the four quarters
TtmResult(acc) ==
    IF acc.ttm_value = 0 \/ Len(acc.periods) < 4 THEN [value |-> 0, periods |-> NA]
    ELSE [value |-> acc.ttm_value,
          periods |-> Str(Format(acc.periods[4]) \o <<" to ">> \o Format(acc.periods[1]))]

\* variant: every entry of the list summed, not the first four
calculate_ttm_from_all_quarters(quarterly_data, field_name) ==
    IF ~Truthy(quarterly_data) \/ quarterly_data = NA \/ quarterly_data.t # "list"
    THEN [value |-> 0, periods |-> NA]
    ELSE IF Len(quarterly_data.l) < 4 THEN [value |-> 0, periods |-> NA]
    ELSE TtmResult(SumQuarters(quarterly_data.l, field_name, 1))

\* quarters_to_use is quarterly_data[:4]; fewer than four quarters give no TTM
calculate_ttm_from_quarterly(quarterly_data, field_name) ==
    IF ~Truthy(quarterly_data) \/ quarterly_data = NA \/ quarterly_data.t # "list"
    THEN [value |-> 0, periods |-> NA]
    ELSE IF Len(quarterly_data.l) < 4 THEN [value |-> 0, periods |-> NA]
    ELSE TtmResult(SumQuarters(SubSeq(quarterly_data.l, 1, 4), field_name, 1))

Reason(text) == Str(<<text>>)

Skip(reason) ==
    [ok |-> FALSE, exc |-> "none", reason |-> reason, ey |-> Frac(0, 1),
     roc |-> Frac(0, 1), ebit_periods_used |-> NA, balance_sheet_period_used |-> NA]

Raise(exception) ==
    [ok |-> FALSE, exc |-> exception, reason |-> None, ey |-> Frac(0, 1),
     roc |-> Frac(0, 1), ebit_periods_used |-> NA, balance_sheet_period_used |-> NA]

\* variant: short-term debt not added back
InvestedCapitalWithoutDebt(q) ==
    LET val(x) == IF IsNumber(x) THEN NumVal(x) ELSE 0
    IN val(Get(q.total_assets, None)) - val(Get(q.cash, None))
       - val(Get(q.current_liabilities, None))

\* total_assets - cash - current_liabilities + short_term_debt of one quarter,
\* a non-number counting as 0
InvestedCapital(q) ==
    LET val(x) == IF IsNumber(x) THEN NumVal(x) ELSE 0
    IN val(Get(q.total_assets, None)) - val(Get(q.cash, None))
       - val(Get(q.current_liabilities, None)) + val(Get(q.short_term_debt, None))

\* variant: capital exactly at the bound rejected as well
AtOrBelowSanityBound(invested_capital, ebit_val) ==
    20 * invested_capital <= Abs(ebit_val)

\* invested_capital < abs(ebit_val) * 0.05
BelowSanityBound(invested_capital, ebit_val) == 20 * invested_capital < Abs(ebit_val)

\* variant: the quotient inverted
EarningsYieldInverted(ebit_val, ev_val) ==
    IF ev_val > 0 THEN Frac(ev_val, ebit_val) ELSE Frac(0, 1)

\* ey = ebit_val / ev_val if ev_val > 0 else 0
EarningsYield(ebit_val, ev_val) ==
    IF ev_val > 0 THEN Frac(ebit_val, ev_val) ELSE Frac(0, 1)

\* variant: the sign of the quotient turned
ReturnOnCapitalNegated(ebit_val, invested_capital) ==
    IF invested_capital > 0 THEN Frac(0 - ebit_val, invested_capital) ELSE Frac(0, 1)

\* roc = ebit_val / invested_capital if invested_capital > 0 else 0
ReturnOnCapital(ebit_val, invested_capital) ==
    IF invested_capital > 0 THEN Frac(ebit_val, invested_capital) ELSE Frac(0, 1)

\* the try block of the gate loop: EY, sanity bound, RoC, positivity
Ratios(ev, ebit_val, invested_capital, ebit_periods, balance_sheet_period_used) ==
    LET f == ToFloat(ev)
        ev_val == f.val
        ey == EarningsYield(ebit_val, ev_val)
        roc == ReturnOnCapital(ebit_val, invested_capital)
    IN CASE f.exc = "ValueError" ->
              Skip(Str(<<"Beräkningsfel: ", "could not convert string to fl">>))
         [] f.exc = "TypeError" -> Raise("TypeError")
         [] OTHER ->
              IF BelowSanityBound(invested_capital, ebit_val)
              THEN Skip(Str(<<"Investerat kapital för litet för meningsfull beräkning ",
                              "(IC: ", FormatMillions(invested_capital),
                              ", EBIT: ", FormatMillions(ebit_val), ")">>))
              ELSE IF ey.p > 0 /\ roc.p > 0
              THEN [ok |-> TRUE, exc |-> "none", reason |-> None, ey |-> ey, roc |-> roc,
                    ebit_periods_used |-> ebit_periods,
                    balance_sheet_period_used |-> balance_sheet_period_used]
              ELSE IF ebit_val < 0 THEN Skip(Reason("Negativ EBIT (förluster)"))
              ELSE IF ey.p <= 0 THEN Skip(Reason("Negativ/noll Earnings Yield"))
              ELSE IF roc.p <= 0 THEN Skip(Reason("Negativ/noll Return on Capital"))
              ELSE Skip(Reason("Kan inte beräkna"))

\* the balance-sheet gates, then the ratios
BalanceSheetGates(stock, ev, ttm) ==
    LET quarterly_balance_sheet == Get(stock.quarterly_balance_sheet, NA) IN
    IF \/ quarterly_balance_sheet = NA
       \/ quarterly_balance_sheet.t # "list"
       \/ Len(quarterly_balance_sheet.l) = 0
    THEN Skip(Reason("Saknar kvartalsdata för balansräkning"))
    ELSE
      LET most_recent_q == quarterly_balance_sheet.l[1] IN
      IF most_recent_q.t # "dict"
      THEN Skip(Reason("Ogiltig kvartalsdata för balansräkning"))
      ELSE
        LET q == most_recent_q.d
            invested_capital == InvestedCapital(q)
        IN IF Get(q.total_assets, None) = None
           THEN Skip(Reason("Saknar Total Assets i kvartalsdata"))
           ELSE IF Get(q.current_liabilities, None) = None
           THEN Skip(Reason("Saknar Current Liabilities i kvartalsdata"))
           ELSE IF Get(q.cash, None) = None
           THEN Skip(Reason("Saknar Cash i kvartalsdata"))
           ELSE IF Get(q.short_term_debt, None) = None
           THEN Skip(Reason("Saknar Short-term Debt i kvartalsdata"))
           ELSE IF invested_capital <= 0
           THEN Skip(Reason("Negativt eller noll investerat kapital"))
           ELSE Ratios(ev, ttm.value, invested_capital, ttm.periods, Get(q.period, NA))

\* the gates of one iteration of the gate loop, ttm being the TTM EBIT
Gates(stock, ttm) ==
    LET currency == Get(stock.currency, NA)
        ev == Get(stock.enterprise_value, NA)
        quarterly_ebit == Get(stock.quarterly_ebit, NA)
    IN IF Truthy(stock.error) THEN Skip(Reason("Fel vid hämtning av data"))
       ELSE IF currency # Str(<<"SEK">>) /\ currency # NA
       THEN Skip(Str(<<"Valuta är ">> \o Format(currency)
                     \o <<", endast SEK-aktier beräknas">>))
       ELSE IF ev = NA \/ ev = None THEN Skip(Reason("Saknar Enterprise Value"))
       ELSE IF \/ quarterly_ebit = NA
               \/ quarterly_ebit.t # "list"
               \/ Len(quarterly_ebit.l) < 4
       THEN Skip(Reason("Saknar kvartalsdata för EBIT (behöver 4 kvartal)"))
       ELSE IF ttm.value <= 0 \/ ttm.periods = NA
       THEN Skip(Reason("Kunde inte beräkna EBIT TTM från kvartalsdata"))
       ELSE BalanceSheetGates(stock, ev, ttm)

\* one iteration of the gate loop over eligible_stocks
Extract(stock) ==
    Gates(stock, calculate_ttm_from_quarterly(Get(stock.quarterly_ebit, NA), "ebit"))

(***************************************************************************)
(* Rank combiner                                                           *)
(***************************************************************************)
\* variant: the order of an ascending sort
Less(a, b) == a.p * b.q < b.p * a.q

\* key(a) > key(b) for two float quotients with positive denominators
Greater(a, b) == a.p * b.q > b.p * a.q

RECURSIVE InsertBeforeEqual(_, _, _)
\* variant: x placed before the items whose key equals its own (not stable)
InsertBeforeEqual(sorted, x, key) ==
    IF Len(sorted) = 0 THEN <<x>>
    ELSE IF ~Greater(Head(sorted)[key], x[key]) THEN <<x>> \o sorted
    ELSE <<Head(sorted)>> \o InsertBeforeEqual(Tail(sorted), x, key)

RECURSIVE InsertDesc(_, _, _)
\* x placed after every item whose key is >= its own (stable, descending)
InsertDesc(sorted, x, key) ==
    IF Len(sorted) = 0 THEN <<x>>
    ELSE IF Greater(x[key], Head(sorted)[key]) THEN <<x>> \o sorted
    ELSE <<Head(sorted)>> \o InsertDesc(Tail(sorted), x, key)

RECURSIVE SortDesc(_, _, _)
\* list.sort(key=lambda x: x[key], reverse=True) of items[1..n]
SortDesc(items, key, n) ==
    IF n = 0 THEN <<>>
    ELSE InsertDesc(SortDesc(items, key, n - 1), items[n], key)

\* variant: enumerate() positions used as they are, from 0
RankFromZero(valid_stocks) ==
    LET by_ey == SortDesc(valid_stocks, "ey", Len(valid_stocks))
        with_ey == [i \in 1..Len(by_ey) |-> [by_ey[i] EXCEPT !.ey_rank = i - 1]]
        by_roc == SortDesc(with_ey, "roc", Len(with_ey))
    IN [i \in 1..Len(by_roc) |-> [by_roc[i] EXCEPT !.roc_rank = i - 1]]

\* the two sorts and enumerations: each item gets ey_rank and roc_rank
Rank(valid_stocks) ==
    LET by_ey == SortDesc(valid_stocks, "ey", Len(valid_stocks))
        with_ey == [i \in 1..Len(by_ey) |-> [by_ey[i] EXCEPT !.ey_rank = i]]
        by_roc == SortDesc(with_ey, "roc", Len(with_ey))
    IN [i \in 1..Len(by_roc) |-> [by_roc[i] EXCEPT !.roc_rank = i]]

(***************************************************************************)
(* calculate_magic_formula_for_stocks                                      *)
(***************************************************************************)
ReasonMissing(stock) ==
    stock.magic_formula_reason = Absent \/ stock.magic_formula_reason = None

EnsureReason(stock) ==
    IF ReasonMissing(stock)
    THEN [stock EXCEPT !.magic_formula_reason = Reason("Ej beräknad")]
    ELSE stock

\* the reason given to a record with default_excluded or exclusion_reason set
FlagReason(exclusion_reason) ==
    LET low == Lower(exclusion_reason.s) IN
    IF Contains(kw_financial, low) \/ Contains(kw_investment, low)
    THEN Reason("Exkluderad: Finansiellt bolag")
    ELSE IF Contains(kw_real_estate, low)
    THEN Reason("Exkluderad: Fastighetsbolag")
    ELSE IF Truthy(exclusion_reason)
    THEN Str(<<"Exkluderad: ">> \o exclusion_reason.s)
    ELSE Reason("Exkluderad från ranking")

\* the reason given to a record excluded by the keyword rules
KeywordReason(stock) ==
    LET sector == LowerOrEmpty(stock.sector)
        industry == LowerOrEmpty(stock.industry)
        name == LowerOrEmpty(stock.name)
    IN IF \/ AnyIn(bank_keywords, sector)
          \/ AnyIn(bank_keywords, industry)
          \/ AnyIn(bank_keywords, name)
       THEN Reason("Exkluderad: Bank")
       ELSE IF Contains(kw_financial, sector) \/ Contains(kw_financial_services, sector)
       THEN Reason("Exkluderad: Finansiellt bolag")
       ELSE IF Contains(kw_real_estate, sector) \/ Contains(kw_real_estate, industry)
       THEN Reason("Exkluderad: Fastighetsbolag")
       ELSE IF Contains(kw_investment, industry) \/ Contains(kw_asset_management, industry)
       THEN Reason("Exkluderad: Investeringsbolag")
       ELSE Reason("Exkluderad: Finansiellt/investeringsbolag")

\* the body of the first loop for an excluded record: the score, then the
\* reason; .lower() of an exclusion_reason that is no string raises
Exclude(stock) ==
    LET scored == [stock EXCEPT !.magic_formula_score[""] = NA]
        exclusion_reason == Get(stock.exclusion_reason, EmptyStr)
    IN IF Truthy(stock.default_excluded) \/ Truthy(stock.exclusion_reason)
       THEN IF exclusion_reason.t # "str"
            THEN [exc |-> "AttributeError", stock |-> scored]
            ELSE [exc |-> "none",
                  stock |-> [scored EXCEPT
                               !.magic_formula_reason = FlagReason(exclusion_reason)]]
       ELSE [exc |-> "none",
             stock |-> [scored EXCEPT !.magic_formula_reason = KeywordReason(stock)]]

RECURSIVE SeparateLoop(_, _)
\* the first loop at an excluded record k, e being what Exclude made of it
SeparateExcluded(batch, k, e) ==
    IF e.exc # "none"
    THEN [exc |-> e.exc, stocks |-> [batch EXCEPT ![k] = e.stock],
          eligible |-> <<>>, excluded |-> <<>>]
    ELSE [SeparateLoop([batch EXCEPT ![k] = e.stock], k + 1) EXCEPT
            !.excluded = <<k>> \o @]

\* the first loop from record k on: [exc, stocks, eligible, excluded]
SeparateLoop(batch, k) ==
    IF k > Len(batch)
    THEN [exc |-> "none", stocks |-> batch, eligible |-> <<>>, excluded |-> <<>>]
    ELSE IF is_financial_company(EnsureReason(batch[k]))
    THEN SeparateExcluded(batch, k, Exclude(EnsureReason(batch[k])))
    ELSE [SeparateLoop([batch EXCEPT ![k] = EnsureReason(@)], k + 1) EXCEPT
            !.eligible = <<k>> \o @]

RECURSIVE GateLoop(_, _, _)
\* the second loop at eligible[j], r being what the gates made of the record
GateStep(batch, eligible, j, r) ==
    IF r.exc # "none"
    THEN [exc |-> r.exc, stocks |-> batch, valid_stocks |-> <<>>]
    ELSE IF r.ok
    THEN [GateLoop(batch, eligible, j + 1) EXCEPT
            !.valid_stocks =
                << [stock |-> eligible[j], ey |-> r.ey, roc |-> r.roc,
                    ebit_periods_used |-> r.ebit_periods_used,
                    balance_sheet_period_used |-> r.balance_sheet_period_used,
                    ey_rank |-> 0, roc_rank |-> 0] >> \o @]
    ELSE GateLoop([batch EXCEPT ![eligible[j]] =
                      [@ EXCEPT !.magic_formula_score[""] = NA,
                                !.magic_formula_reason = r.reason]],
                  eligible, j + 1)

\* the second loop over eligible[j..]: [exc, stocks, valid_stocks]
GateLoop(batch, eligible, j) ==
    IF j > Len(eligible) THEN [exc |-> "none", stocks |-> batch, valid_stocks |-> <<>>]
    ELSE GateStep(batch, eligible, j, Extract(batch[eligible[j]]))

\* variant: the EY rank added twice
MagicScoreEyTwice(ey_rank, roc_rank) == ey_rank + ey_rank

\* magic_score = item["ey_rank"] + item["roc_rank"]
MagicScore(ey_rank, roc_rank) == ey_rank + roc_rank

\* the fields written to a ranked record
Scored(stock, item) ==
    [stock EXCEPT
       !.magic_formula_score[""] = Num(MagicScore(item.ey_rank, item.roc_rank)),
       !.ey_rank[""] = Num(item.ey_rank),
       !.roc_rank[""] = Num(item.roc_rank),
       !.earnings_yield = Frac(item.ey.p * 100, item.ey.q),
       !.return_on_capital = Frac(item.roc.p * 100, item.roc.q),
       !.magic_formula_reason = Reason("Beräknad"),
       !.magic_formula_ebit_periods = item.ebit_periods_used,
       !.magic_formula_balance_sheet_period = item.balance_sheet_period_used,
       !.magic_formula_uses_ttm = Bool(TRUE)]

RECURSIVE SaveRanks(_, _, _)
SaveRanks(batch, ranked, j) ==
    IF j > Len(ranked) THEN batch
    ELSE SaveRanks([batch EXCEPT ![ranked[j].stock] = Scored(@, ranked[j])],
                   ranked, j + 1)

\* the closing loop: every record has a reason
FinalReason(stock) ==
    IF ReasonMissing(stock) \/ stock.magic_formula_reason = EmptyStr
    THEN IF stock.magic_formula_score[""] = NA
         THEN [stock EXCEPT !.magic_formula_reason = Reason("Ej beräknad")]
         ELSE [stock EXCEPT !.magic_formula_reason = Reason("Beräknad")]
    ELSE stock

\* the closing loop and the returned list, saved being the records with ranks
Closing(first, saved) ==
    [exc |-> "none",
     stocks |-> [k \in 1..Len(saved) |-> FinalReason(saved[k])],
     order |-> first.eligible \o first.excluded]

\* ranking and saving, second being what the gate loop left
Ranking(first, second) ==
    IF second.exc # "none"
    THEN [exc |-> second.exc, stocks |-> second.stocks, order |-> <<>>]
    ELSE Closing(first, SaveRanks(second.stocks, Rank(second.valid_stocks), 1))

\* the gate loop, first being what the first loop left
Gating(first) ==
    IF first.exc # "none"
    THEN [exc |-> first.exc, stocks |-> first.stocks, order |-> <<>>]
    ELSE Ranking(first, GateLoop(first.stocks, first.eligible, 1))

\* The call on a list of records.  exc: the exception that left the call, or
\* "none"; stocks: the records as the call left them, in the order given;
\* order: the positions of the returned list (eligible, then excluded).
calculate_magic_formula_for_stocks(batch) == Gating(SeparateLoop(batch, 1))

(***************************************************************************)
(* calculate_all_score_variants                                            *)
(***************************************************************************)
Suffixes == {"", "_100m", "_500m", "_1b", "_5b"}

\* (min_cap, field suffix) of the four market-cap passes, in units of 10 MSEK
market_cap_thresholds ==
    << [min_cap |-> 10, suffix |-> "_100m"],
       [min_cap |-> 50, suffix |-> "_500m"],
       [min_cap |-> 100, suffix |-> "_1b"],
       [min_cap |-> 500, suffix |-> "_5b"] >>

IsScore(v) == v # NA /\ IsNumber(v)

\* original_ticker_map[ticker]: the last record with that ticker; 0: not a key
MapIndex(batch, ticker) ==
    LET holders == {i \in 1..Len(batch) :
                        /\ Truthy(Get(batch[i].ticker, None))
                        /\ batch[i].ticker = ticker}
    IN IF holders = {} THEN 0
       ELSE CHOOSE i \in holders : \A j \in holders : j <= i

\* variant: the reset clears the exclusion flag as well
ResetScoresAndFlag(stock) ==
    [stock EXCEPT
       !.magic_formula_score = [v \in Suffixes |-> NA],
       !.ey_rank = [v \in Suffixes |-> NA],
       !.roc_rank = [v \in Suffixes |-> NA],
       !.earnings_yield = NA,
       !.return_on_capital = NA,
       !.default_excluded = Bool(FALSE)]

\* every score and rank field set to "N/A"
ResetScores(stock) ==
    [stock EXCEPT
       !.magic_formula_score = [v \in Suffixes |-> NA],
       !.ey_rank = [v \in Suffixes |-> NA],
       !.roc_rank = [v \in Suffixes |-> NA],
       !.earnings_yield = NA,
       !.return_on_capital = NA]

RECURSIVE PoolOfUncalculated(_, _, _)
\* variant: a record already marked "Beräknad" is not scored again
PoolOfUncalculated(batch, min_cap, k) ==
    IF k > Len(batch) THEN <<>>
    ELSE IF /\ ~is_financial_company(batch[k])
            /\ (min_cap = 0 \/ meets_market_cap_threshold(batch[k], min_cap))
            /\ batch[k].magic_formula_reason # Str(<<"Beräknad">>)
    THEN <<k>> \o PoolOfUncalculated(batch, min_cap, k + 1)
    ELSE PoolOfUncalculated(batch, min_cap, k + 1)

\* the positions of the records a pass copies into its pool, in order
RECURSIVE PoolOf(_, _, _)
PoolOf(batch, min_cap, k) ==
    IF k > Len(batch) THEN <<>>
    ELSE IF /\ ~is_financial_company(batch[k])
            /\ (min_cap = 0 \/ meets_market_cap_threshold(batch[k], min_cap))
    THEN <<k>> \o PoolOf(batch, min_cap, k + 1)
    ELSE PoolOf(batch, min_cap, k + 1)

\* what the default pass copies from a scored copy onto the original
CopyDefault(original, stock) ==
    LET copied == [original EXCEPT
                     !.magic_formula_score[""] = stock.magic_formula_score[""],
                     !.ey_rank[""] = stock.ey_rank[""],
                     !.roc_rank[""] = stock.roc_rank[""],
                     !.earnings_yield = Get(stock.earnings_yield, NA),
                     !.return_on_capital = Get(stock.return_on_capital, NA),
                     !.magic_formula_reason =
                         IF stock.magic_formula_reason # Absent
                         THEN stock.magic_formula_reason ELSE @]
    IN IF IsScore(stock.magic_formula_score[""])
       THEN [copied EXCEPT
               !.magic_formula_ebit_periods = Get(stock.magic_formula_ebit_periods, NA),
               !.magic_formula_balance_sheet_period =
                   Get(stock.magic_formula_balance_sheet_period, NA),
               !.magic_formula_uses_ttm = Bool(TRUE)]
       ELSE [copied EXCEPT
               !.magic_formula_ebit_periods = NA,
               !.magic_formula_balance_sheet_period = NA,
               !.magic_formula_uses_ttm = Absent]

\* variant: the ranks copied, the score forgotten
CopyVariantRanksOnly(original, stock, suffix) ==
    [original EXCEPT
       !.ey_rank[suffix] = stock.ey_rank[""],
       !.roc_rank[suffix] = stock.roc_rank[""]]

\* variant: a market-cap pass marks every record of its pool as using TTM
CopyVariantMarkingTtm(original, stock, suffix) ==
    [original EXCEPT
       !.magic_formula_score[suffix] = stock.magic_formula_score[""],
       !.ey_rank[suffix] = stock.ey_rank[""],
       !.roc_rank[suffix] = stock.roc_rank[""],
       !.magic_formula_uses_ttm = Bool(TRUE)]

\* what a market-cap pass copies from a scored copy onto the original
CopyVariant(original, stock, suffix) ==
    LET copied == [original EXCEPT
                     !.magic_formula_score[suffix] = stock.magic_formula_score[""],
                     !.ey_rank[suffix] = stock.ey_rank[""],
                     !.roc_rank[suffix] = stock.roc_rank[""]]
        ebit_periods == Get(stock.magic_formula_ebit_periods, None)
        balance_sheet_period == Get(stock.magic_formula_balance_sheet_period, None)
    IN IF IsScore(stock.magic_formula_score[""])
       THEN [copied EXCEPT
               !.magic_formula_ebit_periods =
                   IF Truthy(ebit_periods) /\ ebit_periods # NA
                   THEN ebit_periods ELSE @,
               !.magic_formula_balance_sheet_period =
                   IF Truthy(balance_sheet_period) /\ balance_sheet_period # NA
                   THEN balance_sheet_period ELSE @]
       ELSE copied

RECURSIVE WriteBack(_, _, _, _, _)
\* the copy-back loop over the returned list, from its j-th record on
WriteBack(originals, returned, order, suffix, j) ==
    IF j > Len(order) THEN originals
    ELSE
      LET stock == returned[order[j]]
          ticker == Get(stock.ticker, None)
          target == IF Truthy(ticker) THEN MapIndex(originals, ticker) ELSE 0
      IN IF target = 0 THEN WriteBack(originals, returned, order, suffix, j + 1)
         ELSE WriteBack(
                [originals EXCEPT ![target] =
                    IF suffix = "" THEN CopyDefault(@, stock)
                    ELSE CopyVariant(@, stock, suffix)],
                returned, order, suffix, j + 1)

\* the copy-back of a pass, scored being what the call on the copies returned
CopyBack(originals, suffix, scored) ==
    IF scored.exc # "none" THEN [exc |-> scored.exc, stocks |-> originals]
    ELSE [exc |-> "none",
          stocks |-> WriteBack(originals, scored.stocks, scored.order, suffix, 1)]

\* [s.copy() for s in stocks if ...]: the copies at the positions of the pool
Copies(originals, pool) == [j \in 1..Len(pool) |-> originals[pool[j]]]

\* one pass: filter and copy, score the copies, copy the results back
Pass(originals, min_cap, suffix) ==
    CopyBack(originals, suffix,
             calculate_magic_formula_for_stocks(
                 Copies(originals, PoolOf(originals, min_cap, 1))))

\* the default pass (no floor), then the four market-cap passes
passes == <<[min_cap |-> 0, suffix |-> ""]>> \o market_cap_thresholds

RECURSIVE Passes(_, _)
\* after pass t, p being what it left: an exception ends the call
NextPass(t, p) == IF p.exc # "none" THEN p ELSE Passes(p.stocks, t + 1)

\* the passes from the t-th on
Passes(originals, t) ==
    IF t > Len(passes) THEN [exc |-> "none", stocks |-> originals]
    ELSE NextPass(t, Pass(originals, passes[t].min_cap, passes[t].suffix))

\* exc: the exception that left the call, or "none"; stocks: the records as
\* the call left them
calculate_all_score_variants(batch) ==
    Passes([k \in 1..Len(batch) |-> ResetScores(batch[k])], 1)

(***************************************************************************)
(* recalculate_all_scores                                                  *)
(***************************************************************************)
RankMissing(stock, suffix) ==
    \/ stock.ey_rank[suffix] = NA \/ stock.roc_rank[suffix] = NA
    \/ stock.ey_rank[suffix] = None \/ stock.roc_rank[suffix] = None

\* variant: a rank missing in one variant clears the score of every variant
SweepEveryVariant(stock) ==
    [stock EXCEPT !.magic_formula_score =
        [v \in Suffixes |-> IF \E w \in Suffixes : RankMissing(stock, w) THEN NA ELSE @[v]]]

\* the consistency sweep on one record: a missing rank clears the score
Sweep(stock) ==
    [stock EXCEPT !.magic_formula_score =
        [v \in Suffixes |-> IF RankMissing(stock, v) THEN NA ELSE @[v]]]

\* "ensure reason is always set"
SetReason(stock) ==
    IF ReasonMissing(stock)
    THEN IF stock.magic_formula_score[""] = NA
         THEN [stock EXCEPT !.magic_formula_reason = Reason("Ej beräknad")]
         ELSE [stock EXCEPT !.magic_formula_reason = Reason("Beräknad")]
    ELSE stock

\* the loop over stocks_with_scores: only a record with a ticker is swept
Validate(stock) ==
    IF Truthy(Get(stock.ticker, None)) THEN SetReason(Sweep(stock)) ELSE stock

\* The saved store.  An exception leaves the call before save_current_data,
\* so the store keeps the records it had.
Saved(current_data, stocks_with_scores) ==
    IF stocks_with_scores.exc # "none"
    THEN [exc |-> stocks_with_scores.exc, stocks |-> current_data]
    ELSE [exc |-> "none",
          stocks |-> [k \in 1..Len(current_data) |->
                         Validate(stocks_with_scores.stocks[k])]]

recalculate_all_scores(current_data) ==
    IF Len(current_data) = 0 THEN [exc |-> "none", stocks |-> current_data]
    ELSE Saved(current_data, calculate_all_score_variants(current_data))

(***************************************************************************)
(* generate_html.py: calculate_magic_formula_scores, called by             *)
(* generate_html on the records it renders                                 *)
(***************************************************************************)
AnnualSkip(reason) ==
    [ok |-> FALSE, exc |-> "none", reason |-> reason, ey |-> Frac(0, 1), roc |-> Frac(0, 1)]

\* the try block: the four float() conversions in order, EY, RoC, positivity
AnnualRatios(ebit, ev, total_assets, current_liabilities) ==
    LET converted == <<ebit, ev, total_assets, current_liabilities>>
        failed == {i \in 1..4 : converted[i].exc # "none"}
        invested_capital == total_assets.val - current_liabilities.val
        ey == EarningsYield(ebit.val, ev.val)
        roc == ReturnOnCapital(ebit.val, invested_capital)
    IN IF failed # {}
       THEN IF converted[CHOOSE i \in failed : \A j \in failed : i <= j].exc = "ValueError"
            THEN AnnualSkip(Str(<<"BerÃ¤kningsfel: ", "could not convert string to fl">>))
            ELSE [AnnualSkip(None) EXCEPT !.exc = "TypeError"]
       ELSE IF ey.p > 0 /\ roc.p > 0
       THEN [ok |-> TRUE, exc |-> "none", reason |-> None, ey |-> ey, roc |-> roc]
       ELSE IF ebit.val < 0 THEN AnnualSkip(Reason("Negativ EBIT (fÃ¶rluster)"))
       ELSE IF ey.p <= 0 THEN AnnualSkip(Reason("Negativ/noll avkastning pÃ¥ intÃ¤kter"))
       ELSE IF roc.p <= 0 THEN AnnualSkip(Reason("Negativ/noll avkastning pÃ¥ kapital"))
       ELSE AnnualSkip(Reason("Kan inte berÃ¤kna"))

\* one iteration of the first loop: the checks on the annual fields
AnnualGates(stock) ==
    LET ebit == Get(stock.ebit, NA)
        ev == Get(stock.enterprise_value, NA)
        total_assets == Get(stock.total_assets, NA)
        current_liabilities == Get(stock.current_liabilities, NA)
    IN IF Truthy(Get(stock.error, None))
       THEN AnnualSkip(Reason("Fel vid hÃ¤mtning av data"))
       ELSE IF ebit = NA \/ ebit = None THEN AnnualSkip(Reason("Saknar EBIT"))
       ELSE IF ev = NA \/ ev = None THEN AnnualSkip(Reason("Saknar fÃ¶retagsvÃ¤rde"))
       ELSE IF total_assets = NA \/ total_assets = None
       THEN AnnualSkip(Reason("Saknar totala tillgÃ¥ngar"))
       ELSE IF current_liabilities = NA \/ current_liabilities = None
       THEN AnnualSkip(Reason("Saknar kortfristiga skulder"))
       ELSE AnnualRatios(ToFloat(ebit), ToFloat(ev), ToFloat(total_assets),
                         ToFloat(current_liabilities))

RECURSIVE AnnualLoop(_, _)
\* record k after its checks, r being their result, and the records after it
AnnualStep(batch, k, r) ==
    IF r.exc # "none" THEN [exc |-> r.exc, stocks |-> batch, valid_stocks |-> <<>>]
    ELSE IF r.ok
    THEN [AnnualLoop(batch, k + 1) EXCEPT
            !.valid_stocks = << [stock |-> k, ey |-> r.ey, roc |-> r.roc,
                                 ey_rank |-> 0, roc_rank |-> 0] >> \o @]
    ELSE AnnualLoop([batch EXCEPT ![k] =
                        [@ EXCEPT !.magic_formula_score[""] = NA,
                                  !.magic_formula_reason = r.reason]],
                    k + 1)

\* the first loop over stocks[k..]: [exc, stocks, valid_stocks]
AnnualLoop(batch, k) ==
    IF k > Len(batch) THEN [exc |-> "none", stocks |-> batch, valid_stocks |-> <<>>]
    ELSE AnnualStep(batch, k, AnnualGates(batch[k]))

RECURSIVE SaveAnnualRanks(_, _, _)
\* score and ranks written to the ranked records, the reason cleared
SaveAnnualRanks(batch, ranked, j) ==
    IF j > Len(ranked) THEN batch
    ELSE SaveAnnualRanks(
           [batch EXCEPT ![ranked[j].stock] =
               [@ EXCEPT
                  !.magic_formula_score[""] =
                      Num(MagicScore(ranked[j].ey_rank, ranked[j].roc_rank)),
                  !.ey_rank[""] = Num(ranked[j].ey_rank),
                  !.roc_rank[""] = Num(ranked[j].roc_rank),
                  !.magic_formula_reason = None]],
           ranked, j + 1)

\* the closing loop: a record without both ranks has the "N/A" score
AnnualSweep(stock) ==
    IF RankMissing(stock, "") THEN [stock EXCEPT !.magic_formula_score[""] = NA]
    ELSE stock

\* ranking, saving and the closing loop, first being what the first loop left
AnnualRanking(first) ==
    IF first.exc # "none" THEN [exc |-> first.exc, stocks |-> first.stocks]
    ELSE [exc |-> "none",
          stocks |-> [k \in 1..Len(first.stocks) |->
                         AnnualSweep(SaveAnnualRanks(first.stocks,
                                                     Rank(first.valid_stocks), 1)[k])]]

\* exc: the exception that left the call, or "none"; stocks: the records as
\* the call left them
calculate_magic_formula_scores(batch) == AnnualRanking(AnnualLoop(batch, 1))

(***************************************************************************)
(* Records as the fetch stage stores them                                  *)
(***************************************************************************)
BatchSize == 3
MaxRaise == 2

\* datetime.now().isoformat() on the given day
Timestamp(day) == [date |-> day, time |-> "10:00:00"]

\* The records of a model run are constructed on the first day; a fetch on a
\* later day stamps the record it stores.
create_empty_stock(ticker, name) ==
    [ticker |-> ticker, name |-> name, last_updated |-> Timestamp(1),
     error |-> None, currency |-> Str(<<"SEK">>),
     market_cap |-> NA, sector |-> NA, industry |-> NA, enterprise_value |-> NA,
     ebit |-> NA, total_assets |-> NA, current_liabilities |-> NA,
     quarterly_ebit |-> NA, quarterly_balance_sheet |-> NA,
     magic_formula_score |-> [v \in Suffixes |-> NA],
     ey_rank |-> [v \in Suffixes |-> NA],
     roc_rank |-> [v \in Suffixes |-> NA],
     earnings_yield |-> NA, return_on_capital |-> NA,
     magic_formula_reason |-> Reason("Ej beräknad"),
     magic_formula_ebit_periods |-> NA,
     magic_formula_balance_sheet_period |-> NA,
     magic_formula_uses_ttm |-> None,
     exclusion_reason |-> None, default_excluded |-> Bool(FALSE)]

periods == << "2025-09-30", "2025-06-30", "2025-03-31", "2024-12-31", "2024-09-30" >>

\* quarterly_ebit: the most recent quarter first
QuarterlyEbit(ebits) ==
    List([i \in 1..Len(ebits) |->
            Dict([period |-> Str(<<periods[i]>>), ebit |-> Num(ebits[i])])])

\* quarterly_balance_sheet with the four fields the extractor reads
QuarterlyBalanceSheet(total_assets, current_liabilities, cash, short_term_debt) ==
    List(<< Dict([period |-> Str(<<periods[1]>>),
                  total_assets |-> Num(total_assets),
                  current_liabilities |-> Num(current_liabilities),
                  cash |-> Num(cash),
                  short_term_debt |-> Num(short_term_debt)]) >>)

\* a record fetched without error
Fetched(name, sector, ev, market_cap, ebits, total_assets) ==
    [create_empty_stock(<<>>, Str(name)) EXCEPT
       !.sector = Str(sector),
       !.industry = Str(industry_specialty),
       !.enterprise_value = ev,
       !.market_cap = market_cap,
       !.quarterly_ebit = QuarterlyEbit(ebits),
       !.quarterly_balance_sheet = QuarterlyBalanceSheet(total_assets, 200, 100, 50)]

\* EY 0.2, RoC 0.533, market cap 4.9e8
HighYield ==
    Fetched(name_plain, sector_industrials, Num(2000), Num(49), <<100, 100, 100, 100>>, 1000)
\* EY 0.05, RoC 20: invested capital 20 is exactly 5% of the TTM EBIT 400
HighReturn ==
    Fetched(name_plain, sector_industrials, Num(8000), Num(500), <<100, 100, 100, 100>>, 270)
\* EY 0.1, RoC 0.533, market cap exactly 5e8
Middle ==
    Fetched(name_plain, sector_industrials, Num(4000), Num(50), <<100, 100, 100, 100>>, 1000)
\* EY 0.1, RoC 0.533, market cap not fetched
NoMarketCap ==
    Fetched(name_plain, sector_industrials, Num(4000), NA, <<150, 50, 100, 100>>, 1000)
\* a bank by name, with the best fundamentals
BankNamed ==
    Fetched(name_bank, sector_industrials, Num(1000), Num(500), <<100, 100, 100, 100>>, 400)
\* only three quarters of EBIT
ThreeQuarters ==
    Fetched(name_plain, sector_industrials, Num(2000), Num(100), <<100, 100, 100>>, 1000)
\* flagged default_excluded; create_empty_stock leaves exclusion_reason None
Flagged ==
    [Fetched(name_plain, sector_industrials, Num(1000), Num(500), <<100, 100, 100, 100>>, 400)
       EXCEPT !.default_excluded = Bool(TRUE)]
Profiles ==
    {HighYield, HighReturn, Middle, NoMarketCap, BankNamed, ThreeQuarters, Flagged}

\* the store after a fetch: one record per ticker of the list
FetchedBatches(profiles) ==
    { [k \in 1..BatchSize |-> [p[k] EXCEPT !.ticker = Str(tickers[k])]] :
         p \in [1..BatchSize -> profiles] }

\* the profiles of the batches whose EBIT is raised: all three are ranked
RankedProfiles == {HighYield, HighReturn, Middle}

\* the record a later fetch stores for the same company: create_empty_stock,
\* then the fetched fields
Refetched(stock) ==
    [create_empty_stock(stock.ticker, stock.name) EXCEPT
       !.error = stock.error,
       !.currency = stock.currency,
       !.market_cap = stock.market_cap,
       !.sector = stock.sector,
       !.industry = stock.industry,
       !.enterprise_value = stock.enterprise_value,
       !.ebit = stock.ebit,
       !.total_assets = stock.total_assets,
       !.current_liabilities = stock.current_liabilities,
       !.quarterly_ebit = stock.quarterly_ebit,
       !.quarterly_balance_sheet = stock.quarterly_balance_sheet,
       !.exclusion_reason = stock.exclusion_reason,
       !.default_excluded = stock.default_excluded]

(***************************************************************************)
(* The state machine                                                       *)
(*   stocks  the batch of records (the store)                              *)
(*   exc     the exception that left the last call, or "none"              *)
(*   last    the last operation                                            *)
(*   prev    the batch before the last run of the engine when that run     *)
(*           started from the engine's own output; once an EBIT has been   *)
(*           raised, the scored batch before the raise; <<>> otherwise     *)
(*   raised  the position of the record whose EBIT was raised, or 0        *)
(*   history the stored history: one entry per ticker and date             *)
(*   today   the current day, as the clock of the fetch stage gives it     *)
(***************************************************************************)
Init ==
    /\ stocks \in FetchedBatches(Profiles)
    /\ exc = "none"
    /\ last = "fetch"
    /\ prev = <<>>
    /\ raised = 0
    /\ history = {}
    /\ today = 1

InitRanked ==
    /\ stocks \in FetchedBatches(RankedProfiles)
    /\ exc = "none"
    /\ last = "fetch"
    /\ prev = <<>>
    /\ raised = 0
    /\ history = {}
    /\ today = 1

Returned == last = "calculate_all_score_variants" /\ exc = "none"

\* the call returns or raises: r is [exc, stocks]
Leaves(r) ==
    /\ stocks' = r.stocks
    /\ exc' = r.exc
    /\ UNCHANGED <<history, today>>

CalculateAllScoreVariants ==
    /\ Leaves(calculate_all_score_variants(stocks))
    /\ last' = "calculate_all_score_variants"
    /\ prev' = IF raised # 0 THEN prev
               ELSE IF Returned THEN stocks ELSE <<>>
    /\ raised' = raised

RecalculateAllScores ==
    /\ Leaves(recalculate_all_scores(stocks))
    /\ last' = "recalculate_all_scores"
    /\ prev' = <<>>
    /\ raised' = raised

CalculateMagicFormulaForStocks ==
    /\ Leaves(calculate_magic_formula_for_stocks(stocks))
    /\ last' = "calculate_magic_formula_for_stocks"
    /\ prev' = <<>>
    /\ raised' = raised

\* A later fetch of record r reports one quarterly EBIT larger by delta; the
\* store gets the fetched record.  Once per run of the model.
RaiseEbit ==
    \E r \in 1..Len(stocks), q \in 1..4, delta \in 1..MaxRaise :
        /\ Returned
        /\ raised = 0
        /\ stocks' = [stocks EXCEPT ![r] =
                         Refetched([@ EXCEPT !.quarterly_ebit.l[q].d.ebit.n = @ + delta])]
        /\ exc' = "none"
        /\ last' = "raise_ebit"
        /\ prev' = stocks
        /\ raised' = r
        /\ UNCHANGED <<history, today>>

\* the profiles of the stores in which a record is flagged between two runs
StoreProfiles == {HighYield, Middle, BankNamed, ThreeQuarters}

InitStore ==
    /\ stocks \in FetchedBatches(StoreProfiles)
    /\ exc = "none"
    /\ last = "fetch"
    /\ prev = <<>>
    /\ raised = 0
    /\ history = {}
    /\ today = 1

\* Between two runs the stored record k is flagged default_excluded, the field
\* the schema keeps for a per-record exclusion.  One record per run of the
\* model, after recalculate_all_scores has saved the store.
SetDefaultExcluded ==
    \E k \in 1..Len(stocks) :
        /\ last = "recalculate_all_scores" /\ exc = "none"
        /\ \A j \in 1..Len(stocks) : ~Truthy(stocks[j].default_excluded)
        /\ stocks' = [stocks EXCEPT ![k].default_excluded = Bool(TRUE)]
        /\ last' = "set_default_excluded"
        /\ UNCHANGED <<exc, prev, raised, history, today>>

\* Between two runs the stored record k gets an exclusion text, the field the
\* schema keeps next to the flag.  One record per run of the model, after
\* recalculate_all_scores has saved the store.
SetExclusionReason ==
    \E k \in 1..Len(stocks) :
        /\ last = "recalculate_all_scores" /\ exc = "none"
        /\ \A j \in 1..Len(stocks) : ~Truthy(stocks[j].exclusion_reason)
        /\ stocks' = [stocks EXCEPT ![k].exclusion_reason = Str(<<"M","a","n","u","a","l">>)]
        /\ last' = "set_exclusion_reason"
        /\ UNCHANGED <<exc, prev, raised, history, today>>

\* quarterly_ebit whose entries hold the given ebit values
Quarters(ebits) ==
    List([i \in 1..Len(ebits) |->
            Dict([period |-> Str(<<periods[i]>>), ebit |-> ebits[i]])])

\* a one-quarter quarterly_balance_sheet; Absent is a key the entry lacks
Quarter(total_assets, current_liabilities, cash, short_term_debt) ==
    List(<< Dict([period |-> Str(<<periods[1]>>),
                  total_assets |-> total_assets,
                  current_liabilities |-> current_liabilities,
                  cash |-> cash,
                  short_term_debt |-> short_term_debt]) >>)

\* the values of the fields the gates of the extractor read
GateErrors == {None, Str(<<"HTTP Error 404">>)}
GateCurrencies == {Str(<<"SEK">>), Str(<<"USD">>), NA}
GateEnterpriseValues == {Num(2000), Num(0), Num(0 - 100), NA}
GateEbits ==
    { <<Num(100), Num(100), Num(100), Num(100)>>,
      <<Num(100), Num(100), Num(100)>>,
      <<Num(100), Num(0 - 100), Num(50), Num(0 - 50)>>,
      <<Num(0 - 100), Num(0 - 100), Num(0 - 100), Num(0 - 100)>>,
      <<Num(100), Num(100), Num(100), Num(100), Num(0 - 1000)>>,
      <<Num(100), NA, Num(100), Num(100), Num(100)>> }
GateBalanceSheets ==
    { Quarter(Num(1000), Num(200), Num(100), Num(50)),
      Quarter(Num(265), Num(200), Num(100), Num(50)),
      Quarter(Num(270), Num(200), Num(100), Num(50)),
      Quarter(Num(250), Num(200), Num(100), Num(50)),
      Quarter(Num(200), Num(200), Num(100), Num(50)),
      List(<<>>),
      Quarter(None, Num(200), Num(100), Num(50)),
      Quarter(NA, Num(200), Num(100), Num(50)),
      Quarter(Num(1000), Num(200), Absent, Num(50)),
      Quarter(Num(1000), Num(200), NA, Num(50)),
      Quarter(Num(1000), None, None, Num(50)),
      Quarter(Num(1000), Absent, Num(100), None),
      Quarter(Num(1000), Num(200), Num(100), NA) }

\* the records that differ in what the gates read; the market cap clears
\* every floor
GateRecords ==
    { [create_empty_stock(<<>>, Str(name_plain)) EXCEPT
         !.sector = Str(sector_industrials),
         !.industry = Str(industry_specialty),
         !.market_cap = Num(500),
         !.error = error,
         !.currency = currency,
         !.enterprise_value = ev,
         !.quarterly_ebit = Quarters(ebits),
         !.quarterly_balance_sheet = quarterly_balance_sheet] :
        error \in GateErrors, currency \in GateCurrencies,
        ev \in GateEnterpriseValues, ebits \in GateEbits,
        quarterly_balance_sheet \in GateBalanceSheets }

\* the records next to the one under the gates
GatePeers == <<HighYield, HighReturn, Middle, NoMarketCap>>

\* the store holding one of GateRecords first, then the peers
GateBatches ==
    { [k \in 1..BatchSize |->
          [(IF k = 1 THEN g ELSE GatePeers[k - 1]) EXCEPT !.ticker = Str(tickers[k])]] :
        g \in GateRecords }

InitGates ==
    /\ stocks \in GateBatches
    /\ exc = "none"
    /\ last = "fetch"
    /\ prev = <<>>
    /\ raised = 0
    /\ history = {}
    /\ today = 1

\* the texts and flags the classifier reads
ClassifierSectors ==
    { Str(sector_industrials),
      Str(<<"F","i","n","a","n","c","i","a","l"," ","S","e","r","v","i","c","e","s">>),
      Str(<<"R","e","a","l"," ","E","s","t","a","t","e">>) }
ClassifierIndustries ==
    { Str(industry_specialty),
      Str(<<"F","i","n","a","n","c","i","a","l"," ","D","a","t","a">>),
      Str(<<"R","e","a","l"," ","E","s","t","a","t","e"," ","S","e","r","v","i","c","e","s">>),
      Str(<<"B","a","n","k","s">>),
      Str(<<"A","s","s","e","t"," ","M","a","n","a","g","e","m","e","n","t">>) }
ClassifierNames ==
    { Str(name_plain), Str(name_bank),
      Str(<<"I","n","v","e","s","t","o","r"," ","A","B">>),
      Str(<<"N","o","r","d","e","a">>) }
ClassifierTickers ==
    { Str(tickers[1]), Str(<<"S","E","B","-","A">>), Str(<<"L","U","N","D","-","B">>) }
ClassifierFlags ==
    { [default_excluded |-> Bool(FALSE), exclusion_reason |-> None],
      [default_excluded |-> Bool(FALSE), exclusion_reason |-> EmptyStr],
      [default_excluded |-> Bool(TRUE), exclusion_reason |-> None],
      [default_excluded |-> Bool(FALSE), exclusion_reason |-> Str(<<"M","a","n","u","a","l">>)] }

\* records that pass every gate of the extractor and differ in what the
\* classifier reads
ClassifierRecords ==
    { [HighYield EXCEPT
         !.sector = sector, !.industry = industry, !.name = name, !.ticker = ticker,
         !.default_excluded = flags.default_excluded,
         !.exclusion_reason = flags.exclusion_reason] :
        sector \in ClassifierSectors, industry \in ClassifierIndustries,
        name \in ClassifierNames, ticker \in ClassifierTickers,
        flags \in ClassifierFlags }

\* the store holding one of ClassifierRecords first, then the peers
ClassifierBatches ==
    { [k \in 1..BatchSize |->
          IF k = 1 THEN c ELSE [GatePeers[k - 1] EXCEPT !.ticker = Str(tickers[k])]] :
        c \in ClassifierRecords }

InitClassifier ==
    /\ stocks \in ClassifierBatches
    /\ exc = "none"
    /\ last = "fetch"
    /\ prev = <<>>
    /\ raised = 0
    /\ history = {}
    /\ today = 1

\* a fetched record with the annual figures the presentation step reads
Annual(stock, ebit, total_assets, current_liabilities) ==
    [stock EXCEPT !.ebit = ebit, !.total_assets = total_assets,
                  !.current_liabilities = current_liabilities]

\* the profiles of the stores that are rendered
RenderedProfiles ==
    { Annual(HighYield, Num(400), Num(1000), Num(200)),
      Annual(HighReturn, Num(400), Num(270), Num(200)),
      Annual(Middle, NA, Num(1000), Num(200)),
      Annual(BankNamed, Num(400), Num(400), Num(200)),
      Annual(ThreeQuarters, Num(300), Num(1000), Num(200)) }

InitRendered ==
    /\ stocks \in FetchedBatches(RenderedProfiles)
    /\ exc = "none"
    /\ last = "fetch"
    /\ prev = <<>>
    /\ raised = 0
    /\ history = {}
    /\ today = 1

\* generate_html on the records calculate_all_score_variants returned: the
\* records as calculate_magic_formula_scores leaves them are the ones rendered
GenerateHtml ==
    /\ Returned
    /\ Leaves(calculate_magic_formula_scores(stocks))
    /\ last' = "generate_html"
    /\ prev' = <<>>
    /\ raised' = raised

\* what the ticker field of a record handed to calculate_all_score_variants
\* holds: a ticker, the ticker of another record, None or the empty string
TickerValues == {Str(tickers[1]), Str(tickers[2]), None, EmptyStr}

TickerProfiles == {HighYield, Middle, ThreeQuarters}

\* lists of records whose tickers may be absent or repeated
TickerBatches ==
    { [k \in 1..BatchSize |-> [p[k] EXCEPT !.ticker = t[k]]] :
         p \in [1..BatchSize -> TickerProfiles], t \in [1..BatchSize -> TickerValues] }

InitTickers ==
    /\ stocks \in TickerBatches
    /\ exc = "none"
    /\ last = "fetch"
    /\ prev = <<>>
    /\ raised = 0
    /\ history = {}
    /\ today = 1

(***************************************************************************)
(* fetch_stocks.py: the quarterly balance sheet the fetch stores.  A column *)
(* of the provider's quarterly balance sheet holds a number for each row   *)
(* the provider supplies and Absent for a row that is missing or NaN.      *)
(***************************************************************************)
\* the value stored for a row: float(val) when the row holds a number
RowValue(val) == IF val.t = "num" THEN val ELSE Absent

\* quarter_data of one column: the keys the fetch writes are period,
\* current_assets, current_liabilities and net_fixed_assets; total_assets, cash
\* and short_term_debt are keys it never writes
quarter_data(period_str, column) ==
    Dict([period |-> Str(<<period_str>>),
          current_assets |-> RowValue(column.current_assets),
          current_liabilities |-> RowValue(column.current_liabilities),
          net_fixed_assets |-> RowValue(column.net_fixed_assets),
          total_assets |-> Absent,
          cash |-> Absent,
          short_term_debt |-> Absent])

\* len(quarter_data) > 1: more than the period
HasValue(entry) ==
    \/ entry.d.current_assets # Absent
    \/ entry.d.current_liabilities # Absent
    \/ entry.d.net_fixed_assets # Absent

RECURSIVE quarterly_balance_sheet_data(_, _)
\* the entries of columns[i..], most recent first, up to four
quarterly_balance_sheet_data(columns, i) ==
    IF i > Len(columns) \/ i > 4 THEN <<>>
    ELSE IF HasValue(quarter_data(periods[i], columns[i]))
    THEN <<quarter_data(periods[i], columns[i])>>
            \o quarterly_balance_sheet_data(columns, i + 1)
    ELSE quarterly_balance_sheet_data(columns, i + 1)

\* the record fetch_stock_data_from_ticker returns for a company with four
\* quarters of EBIT, the currency and enterprise value of the provider's info
\* and the given quarterly balance sheet
fetch_stock_data_from_ticker(info, columns) ==
    [HighReturn EXCEPT
       !.currency = info.currency,
       !.enterprise_value = info.enterprise_value,
       !.quarterly_balance_sheet =
          IF quarterly_balance_sheet_data(columns, 1) = <<>> THEN NA
          ELSE List(quarterly_balance_sheet_data(columns, 1))]

\* a row of a provider column: supplied or not
ProviderRow(val) == {Num(val), Absent}

ProviderColumns ==
    [total_assets : ProviderRow(1000), current_assets : ProviderRow(400),
     current_liabilities : ProviderRow(200), net_fixed_assets : ProviderRow(300),
     cash : ProviderRow(100), short_term_debt : ProviderRow(50)]

\* the currency and enterprise value of the provider's info
ProviderInfos == [currency : GateCurrencies, enterprise_value : GateEnterpriseValues]

\* the provider supplies every row
CompleteColumn ==
    [total_assets |-> Num(1000), current_assets |-> Num(400),
     current_liabilities |-> Num(200), net_fixed_assets |-> Num(300),
     cash |-> Num(100), short_term_debt |-> Num(50)]

\* the store holding a freshly fetched record first, then the peers
ProviderBatches ==
    { [k \in 1..BatchSize |->
          [(IF k = 1 THEN fetch_stock_data_from_ticker(info, <<column, CompleteColumn>>)
            ELSE GatePeers[k - 1]) EXCEPT !.ticker = Str(tickers[k])]] :
        info \in ProviderInfos, column \in ProviderColumns }

InitProvider ==
    /\ stocks \in ProviderBatches
    /\ exc = "none"
    /\ last = "fetch"
    /\ prev = <<>>
    /\ raised = 0
    /\ history = {}
    /\ today = 1

(***************************************************************************)
(* fetch_stocks.py: the history.  history[ticker][date] of the code is the *)
(* entry of the set with that ticker and date; an assignment to            *)
(* history[ticker][date] replaces the entry under that key.                *)
(***************************************************************************)
MaxDay == 2

\* timestamp_str.split("T")[0]
DatePart(timestamp_str) == timestamp_str.date

\* the score is neither "N/A" nor None and float() accepts it
HasValidScore(stock_data) ==
    /\ stock_data.magic_formula_score[""] # NA
    /\ stock_data.magic_formula_score[""] # None
    /\ ToFloat(stock_data.magic_formula_score[""]).exc = "none"

history_entry(stock_data, date_str) ==
    [date |-> date_str,
     market_cap |-> stock_data.market_cap,
     ebit |-> stock_data.ebit,
     quarterly_ebit |-> stock_data.quarterly_ebit,
     enterprise_value |-> stock_data.enterprise_value,
     total_assets |-> stock_data.total_assets,
     current_liabilities |-> stock_data.current_liabilities,
     quarterly_balance_sheet |-> stock_data.quarterly_balance_sheet,
     magic_formula_score |-> stock_data.magic_formula_score,
     ey_rank |-> stock_data.ey_rank,
     roc_rank |-> stock_data.roc_rank,
     magic_formula_ebit_periods |-> stock_data.magic_formula_ebit_periods,
     magic_formula_balance_sheet_period |-> stock_data.magic_formula_balance_sheet_period,
     magic_formula_uses_ttm |-> stock_data.magic_formula_uses_ttm,
     sector |-> stock_data.sector,
     industry |-> stock_data.industry,
     exclusion_reason |-> stock_data.exclusion_reason]

\* history[ticker][date_str] = entry
SetEntry(h, ticker, date_str, entry) ==
    { e \in h : e.ticker # ticker \/ e.date # date_str }
        \cup { [ticker |-> ticker, date |-> date_str, entry |-> entry] }

\* date in history[ticker]
HasEntry(h, ticker, date_str) ==
    \E e \in h : e.ticker = ticker /\ e.date = date_str

\* history[ticker][date_str]
EntryOf(h, ticker, date_str) ==
    (CHOOSE e \in h : e.ticker = ticker /\ e.date = date_str).entry

\* the entry is stored under the date of the record's last_updated
add_to_history(ticker, stock_data, h) ==
    IF ~HasValidScore(stock_data) THEN h
    ELSE SetEntry(h, ticker, DatePart(stock_data.last_updated),
                  history_entry(stock_data, DatePart(stock_data.last_updated)))

\* the fields update_history_with_calculated_scores writes into today's entry
UpdateEntry(entry, stock_data) ==
    [entry EXCEPT
       !.magic_formula_score = stock_data.magic_formula_score,
       !.ey_rank = stock_data.ey_rank,
       !.roc_rank = stock_data.roc_rank,
       !.magic_formula_ebit_periods = stock_data.magic_formula_ebit_periods,
       !.magic_formula_balance_sheet_period = stock_data.magic_formula_balance_sheet_period,
       !.magic_formula_uses_ttm = stock_data.magic_formula_uses_ttm]

\* one round of the loop of update_history_with_calculated_scores
UpdateStep(ticker, stock_data, h, day) ==
    IF ~HasValidScore(stock_data) THEN h
    ELSE IF ~HasEntry(h, ticker, day) THEN add_to_history(ticker, stock_data, h)
    ELSE SetEntry(h, ticker, day, UpdateEntry(EntryOf(h, ticker, day), stock_data))

RECURSIVE UpdateLoop(_, _, _, _)
UpdateLoop(current_data, h, day, k) ==
    IF k > Len(current_data) THEN h
    ELSE UpdateLoop(current_data,
                    UpdateStep(current_data[k].ticker, current_data[k], h, day),
                    day, k + 1)

update_history_with_calculated_scores(current_data, h, day) ==
    UpdateLoop(current_data, h, day, 1)

\* the profiles of the stores whose history is kept
HistoryProfiles == {HighYield, Middle}

InitHistory ==
    /\ stocks \in FetchedBatches(HistoryProfiles)
    /\ exc = "none"
    /\ last = "fetch"
    /\ prev = <<>>
    /\ raised = 0
    /\ history = {}
    /\ today = 1

\* main on a later day: the fetch of record k succeeds and the store gets the
\* fetched record, stamped today.  A record whose fetch fails, or that the
\* run does not reach, stays in the store as it was.
FetchStockData ==
    \E k \in 1..Len(stocks), p \in HistoryProfiles :
        /\ last \in {"next_day", "fetch_stock_data"}
        /\ DatePart(stocks[k].last_updated) < today
        /\ stocks' = [stocks EXCEPT ![k] =
                         [p EXCEPT !.ticker = stocks[k].ticker,
                                   !.last_updated = Timestamp(today)]]
        /\ exc' = "none"
        /\ last' = "fetch_stock_data"
        /\ UNCHANGED <<prev, raised, history, today>>

\* main, after recalculate_all_scores
UpdateHistoryWithCalculatedScores ==
    /\ last = "recalculate_all_scores" /\ exc = "none"
    /\ history' = update_history_with_calculated_scores(stocks, history, today)
    /\ last' = "update_history_with_calculated_scores"
    /\ UNCHANGED <<stocks, exc, prev, raised, today>>

AddToHistory ==
    \E k \in 1..Len(stocks) :
        /\ last = "recalculate_all_scores" /\ exc = "none"
        /\ history' = add_to_history(stocks[k].ticker, stocks[k], history)
        /\ last' = "add_to_history"
        /\ UNCHANGED <<stocks, exc, prev, raised, today>>

\* the next run of main is on the next day
NextDay ==
    /\ last \in {"update_history_with_calculated_scores", "add_to_history"}
    /\ today < MaxDay
    /\ today' = today + 1
    /\ last' = "next_day"
    /\ UNCHANGED <<stocks, exc, prev, raised, history>>

Next ==
    \/ CalculateAllScoreVariants
    \/ RecalculateAllScores
    \/ CalculateMagicFormulaForStocks

NextRanked ==
    \/ CalculateAllScoreVariants
    \/ RaiseEbit

Spec == Init /\ [][Next]_vars

SpecRanked == InitRanked /\ [][NextRanked]_vars

NextStore ==
    \/ RecalculateAllScores
    \/ SetDefaultExcluded

SpecStore == InitStore /\ [][NextStore]_vars

NextGates ==
    \/ CalculateAllScoreVariants
    \/ CalculateMagicFormulaForStocks

SpecGates == InitGates /\ [][NextGates]_vars

SpecClassifier == InitClassifier /\ [][NextGates]_vars

NextRendered ==
    \/ CalculateAllScoreVariants
    \/ GenerateHtml

SpecRendered == InitRendered /\ [][NextRendered]_vars

NextEarlierPass ==
    \/ RecalculateAllScores
    \/ SetExclusionReason
    \/ CalculateMagicFormulaForStocks

SpecEarlierPass == InitStore /\ [][NextEarlierPass]_vars

SpecTickers == InitTickers /\ [][CalculateAllScoreVariants]_vars

SpecProvider == InitProvider /\ [][NextGates]_vars

NextHistory ==
    \/ FetchStockData
    \/ RecalculateAllScores
    \/ UpdateHistoryWithCalculatedScores
    \/ AddToHistory
    \/ NextDay

SpecHistory == InitHistory /\ [][NextHistory]_vars

(***************************************************************************)
(* Properties                                                              *)
(***************************************************************************)
\* both ranks of variant v are numbers
Ranked(stock, v) == IsScore(stock.ey_rank[v]) /\ IsScore(stock.roc_rank[v])

\* the positions of the records ranked in variant v
RankedIn(v) == {k \in 1..Len(stocks) : Ranked(stocks[k], v)}

\* the classifier's rules, read off the record
MatchesExclusionRule(stock) ==
    \/ Truthy(stock.default_excluded)
    \/ Truthy(stock.exclusion_reason)
    \/ TextRules(LowerOrEmpty(stock.sector), LowerOrEmpty(stock.industry),
                 LowerOrEmpty(stock.name), LowerOrEmpty(stock.ticker))

\* the scoring fields of a record
ScoringFields(stock) ==
    << stock.magic_formula_score, stock.ey_rank, stock.roc_rank,
       stock.earnings_yield, stock.return_on_capital, stock.magic_formula_reason,
       stock.magic_formula_ebit_periods, stock.magic_formula_balance_sheet_period,
       stock.magic_formula_uses_ttm >>

\* TTM EBIT, enterprise value and invested capital of a record that has them
TtmEbit(stock) == calculate_ttm_from_quarterly(stock.quarterly_ebit, "ebit").value
EnterpriseValue(stock) == ToFloat(stock.enterprise_value).val
CapitalOf(stock) == InvestedCapital(stock.quarterly_balance_sheet.l[1].d)

\* C1: after recalculate_all_scores, also on a batch that carries derived
\* fields of an earlier run, for every record and each of the five variants
\* the score is a number if and only if both ranks are numbers, and a score
\* that is no number is "N/A".
C1_ScoreIffBothRanks ==
    (last = "recalculate_all_scores" /\ exc = "none") =>
        \A k \in 1..Len(stocks) : \A v \in Suffixes :
            /\ IsScore(stocks[k].magic_formula_score[v]) <=> Ranked(stocks[k], v)
            /\ ~IsScore(stocks[k].magic_formula_score[v])
                 => stocks[k].magic_formula_score[v] = NA

\* recalculate_all_scores has run on a batch holding a reason left by a direct
\* call; one record is scored in a variant and unscored in another
C1_Witness ==
    /\ last = "recalculate_all_scores" /\ exc = "none"
    /\ \E k \in 1..Len(stocks) :
          stocks[k].magic_formula_reason = Reason("Exkluderad: Bank")
    /\ \E k \in 1..Len(stocks) :
          /\ IsScore(stocks[k].magic_formula_score["_100m"])
          /\ stocks[k].magic_formula_score["_500m"] = NA

\* C2: after calculate_all_score_variants, in each variant the N numeric
\* ey_rank values are exactly 1..N, each held by one record; likewise roc_rank.
C2_RanksArePermutation ==
    Returned =>
        \A v \in Suffixes : \A field \in {"ey_rank", "roc_rank"} :
            LET holders == {k \in 1..Len(stocks) : IsScore(stocks[k][field][v])} IN
            /\ \A k \in holders : stocks[k][field][v].t = "num"
            /\ {stocks[k][field][v].n : k \in holders} = 1..Cardinality(holders)
            /\ \A j, k \in holders :
                  stocks[j][field][v] = stocks[k][field][v] => j = k

\* the default variant ranks at least two records and the 5B variant exactly one
C2_Witness ==
    /\ Returned
    /\ Cardinality(RankedIn("")) >= 2
    /\ Cardinality(RankedIn("_5b")) = 1

\* C3: after calculate_all_score_variants every numeric score is
\* ey_rank + roc_rank of the same variant, lies in 2..2N for the N records
\* ranked in that variant, and is 2 for a record ranked first on both.
C3_ScoreIsRankSum ==
    Returned =>
        \A k \in 1..Len(stocks) : \A v \in Suffixes :
            IsScore(stocks[k].magic_formula_score[v]) =>
                /\ Ranked(stocks[k], v)
                /\ stocks[k].magic_formula_score[v]
                     = Num(stocks[k].ey_rank[v].n + stocks[k].roc_rank[v].n)
                /\ stocks[k].magic_formula_score[v].n >= 2
                /\ stocks[k].magic_formula_score[v].n <= 2 * Cardinality(RankedIn(v))
                /\ (stocks[k].ey_rank[v] = Num(1) /\ stocks[k].roc_rank[v] = Num(1))
                     => stocks[k].magic_formula_score[v] = Num(2)

\* one record scores 2, and one is scored from two different ranks
C3_Witness ==
    /\ Returned
    /\ \E k \in 1..Len(stocks) : \E v \in Suffixes :
          stocks[k].magic_formula_score[v] = Num(2)
    /\ \E k \in 1..Len(stocks) : \E v \in Suffixes :
          /\ IsScore(stocks[k].magic_formula_score[v])
          /\ stocks[k].ey_rank[v] # stocks[k].roc_rank[v]

\* C4: after calculate_all_score_variants a record that matches a rule of
\* is_financial_company has "N/A" for the score and both ranks of all five
\* variants, whatever its fundamentals and market cap.
C4_ExcludedNeverScored ==
    Returned =>
        \A k \in 1..Len(stocks) :
            MatchesExclusionRule(stocks[k]) =>
                \A v \in Suffixes :
                    /\ stocks[k].magic_formula_score[v] = NA
                    /\ stocks[k].ey_rank[v] = NA
                    /\ stocks[k].roc_rank[v] = NA

\* a bank by name and a flagged record, both with fundamentals that pass every
\* gate and a market cap at the highest floor, next to a ranked record
C4_Witness ==
    /\ Returned
    /\ \E k \in 1..Len(stocks) :
          /\ stocks[k].name = Str(name_bank)
          /\ Extract(stocks[k]).ok
          /\ meets_market_cap_threshold(stocks[k], 500)
    /\ \E k \in 1..Len(stocks) :
          /\ Truthy(stocks[k].default_excluded)
          /\ Extract(stocks[k]).ok
    /\ \E k \in 1..Len(stocks) : Ranked(stocks[k], "")

\* C5: after calculate_all_score_variants, for a record with a numeric default
\* score and each floor F, the score of variant F is numeric if and only if
\* market_cap is a number >= F.
C5_FloorGatesVariant ==
    Returned =>
        \A k \in 1..Len(stocks) :
            IsScore(stocks[k].magic_formula_score[""]) =>
                \A t \in 1..Len(market_cap_thresholds) :
                    IsScore(stocks[k].magic_formula_score[market_cap_thresholds[t].suffix])
                    <=> /\ stocks[k].market_cap.t = "num"
                        /\ stocks[k].market_cap.n >= market_cap_thresholds[t].min_cap

\* market cap 4.9e8: scored at 100M, not at 500M; market cap exactly 5e8:
\* scored at 500M; market cap "N/A": default score only
C5_Witness ==
    /\ Returned
    /\ \E k \in 1..Len(stocks) :
          /\ stocks[k].market_cap = Num(49)
          /\ IsScore(stocks[k].magic_formula_score["_100m"])
          /\ stocks[k].magic_formula_score["_500m"] = NA
    /\ \E k \in 1..Len(stocks) :
          /\ stocks[k].market_cap = Num(50)
          /\ IsScore(stocks[k].magic_formula_score["_500m"])
          /\ stocks[k].magic_formula_score["_1b"] = NA
    /\ \E k \in 1..Len(stocks) :
          /\ stocks[k].market_cap = NA
          /\ IsScore(stocks[k].magic_formula_score[""])
          /\ stocks[k].magic_formula_score["_100m"] = NA

\* C6: calculate_magic_formula_for_stocks and calculate_all_score_variants
\* return normally on every batch: no exception reaches the caller, and every
\* record without a score has the "N/A" score and a reason string.
C6_ReturnsNormally ==
    last \in {"calculate_magic_formula_for_stocks", "calculate_all_score_variants"} =>
        /\ exc = "none"
        /\ \A k \in 1..Len(stocks) :
              ~IsScore(stocks[k].magic_formula_score[""]) =>
                  /\ stocks[k].magic_formula_score[""] = NA
                  /\ stocks[k].magic_formula_reason.t = "str"

\* C7: a second run of calculate_all_score_variants on the batch the first run
\* returned leaves every scoring field of every record as the first run left it.
C7_SecondRunChangesNothing ==
    (Returned /\ prev # <<>> /\ raised = 0) =>
        \A k \in 1..Len(stocks) : ScoringFields(stocks[k]) = ScoringFields(prev[k])

\* the second run has returned on a batch with a scored and an unscored record
C7_Witness ==
    /\ Returned /\ prev # <<>> /\ raised = 0
    /\ \E k \in 1..Len(stocks) : IsScore(stocks[k].magic_formula_score[""])
    /\ \E k \in 1..Len(stocks) : stocks[k].magic_formula_score[""] = NA

\* C8: the scoring fields calculate_all_score_variants leaves depend on the raw
\* fields only: they equal those the call leaves on the batch with the same raw
\* fields and the derived fields of a fresh record.
C8_DerivedFromRawOnly ==
    Returned =>
        LET fresh == calculate_all_score_variants(
                         [k \in 1..Len(stocks) |-> Refetched(stocks[k])]).stocks
        IN \A k \in 1..Len(stocks) : ScoringFields(stocks[k]) = ScoringFields(fresh[k])

\* C9: of two records ranked in a variant, the one with the strictly greater
\* earnings yield has the smaller ey_rank, and the one with the strictly
\* greater return on capital has the smaller roc_rank.
C9_RankFollowsMetric ==
    Returned =>
        \A v \in Suffixes : \A a, b \in RankedIn(v) :
            /\ TtmEbit(stocks[a]) * EnterpriseValue(stocks[b])
                 > TtmEbit(stocks[b]) * EnterpriseValue(stocks[a])
               => stocks[a].ey_rank[v].n < stocks[b].ey_rank[v].n
            /\ TtmEbit(stocks[a]) * CapitalOf(stocks[b])
                 > TtmEbit(stocks[b]) * CapitalOf(stocks[a])
               => stocks[a].roc_rank[v].n < stocks[b].roc_rank[v].n

\* two ranked records, one ahead on earnings yield, the other on return on capital
C9_Witness ==
    /\ Returned
    /\ \E a, b \in RankedIn("") :
          /\ TtmEbit(stocks[a]) * EnterpriseValue(stocks[b])
               > TtmEbit(stocks[b]) * EnterpriseValue(stocks[a])
          /\ TtmEbit(stocks[b]) * CapitalOf(stocks[a])
               > TtmEbit(stocks[a]) * CapitalOf(stocks[b])

\* the ranks of the record whose EBIT was raised, against the ranks it had
StillRankedNoWorse ==
    \A v \in Suffixes :
        Ranked(prev[raised], v) =>
            /\ Ranked(stocks[raised], v)
            /\ stocks[raised].ey_rank[v].n <= prev[raised].ey_rank[v].n
            /\ stocks[raised].roc_rank[v].n <= prev[raised].roc_rank[v].n

\* C10: a record ranked in a variant, one of whose quarterly EBIT values is
\* then raised, is still ranked in that variant after
\* calculate_all_score_variants, and neither rank is larger than before.
C10_RaisedEbitKeepsRank ==
    (Returned /\ raised # 0) => StillRankedNoWorse

\* C10, amended: the same, provided the invested capital of the record is at
\* least 5% of its raised TTM EBIT.
C10_RaisedEbitKeepsRankWithinBound ==
    (/\ Returned /\ raised # 0
     /\ 20 * CapitalOf(stocks[raised]) >= TtmEbit(stocks[raised]))
    => StillRankedNoWorse

\* the raised record passes the bound and its ey_rank has improved
C10_Witness ==
    /\ Returned /\ raised # 0
    /\ 20 * CapitalOf(stocks[raised]) >= TtmEbit(stocks[raised])
    /\ Ranked(prev[raised], "") /\ Ranked(stocks[raised], "")
    /\ stocks[raised].ey_rank[""].n < prev[raised].ey_rank[""].n

\* C11: after recalculate_all_scores every record has a magic_formula_reason
\* that is not null, and the reason is "Beräknad" if and only if the default
\* score is a number; a record with the "N/A" default score never carries
\* "Beräknad".
C11_ReasonMatchesScore ==
    (last = "recalculate_all_scores" /\ exc = "none") =>
        \A k \in 1..Len(stocks) :
            /\ ~ReasonMissing(stocks[k])
            /\ stocks[k].magic_formula_reason = Reason("Beräknad")
                 <=> IsScore(stocks[k].magic_formula_score[""])

\* the reason text begins with "Exkluderad"
BeginsWithExkluderad(reason) ==
    /\ reason.t = "str"
    /\ Len(reason.s) > 0
    /\ reason.s[1] \in {"Exkluderad: ", "Exkluderad: Bank", "Exkluderad: Finansiellt bolag",
                        "Exkluderad: Fastighetsbolag", "Exkluderad: Investeringsbolag",
                        "Exkluderad: Finansiellt/investeringsbolag",
                        "Exkluderad från ranking"}

\* C12: after calculate_all_score_variants every record the classifier
\* excludes carries a reason that begins with "Exkluderad", not a leftover or
\* default reason such as "Ej beräknad".
C12_ExcludedCarryExclusionReason ==
    Returned =>
        \A k \in 1..Len(stocks) :
            MatchesExclusionRule(stocks[k])
                => BeginsWithExkluderad(stocks[k].magic_formula_reason)

\* the most recent quarterly balance-sheet entry, when there is one
HasRecentQuarter(stock) ==
    /\ stock.quarterly_balance_sheet.t = "list"
    /\ Len(stock.quarterly_balance_sheet.l) > 0
    /\ stock.quarterly_balance_sheet.l[1].t = "dict"
RecentQuarter(stock) == stock.quarterly_balance_sheet.l[1].d

BalanceSheetFields ==
    <<"total_assets", "current_liabilities", "cash", "short_term_debt">>

\* the entry supplies a number for each of the four fields
SuppliesAllFields(stock) ==
    /\ HasRecentQuarter(stock)
    /\ \A i \in 1..4 : RecentQuarter(stock)[BalanceSheetFields[i]].t = "num"

\* total_assets - cash - current_liabilities + short_term_debt of that entry
StatedCapital(stock) ==
    RecentQuarter(stock).total_assets.n - RecentQuarter(stock).cash.n
      - RecentQuarter(stock).current_liabilities.n
      + RecentQuarter(stock).short_term_debt.n

\* quarterly_ebit is a list of at least four entries, the first four with a
\* numeric ebit
FourNumericQuarters(stock) ==
    /\ stock.quarterly_ebit.t = "list"
    /\ Len(stock.quarterly_ebit.l) >= 4
    /\ \A i \in 1..4 : stock.quarterly_ebit.l[i].d.ebit.t = "num"

\* the sum of the ebit of the first four entries
FourQuarterSum(stock) ==
    stock.quarterly_ebit.l[1].d.ebit.n + stock.quarterly_ebit.l[2].d.ebit.n
      + stock.quarterly_ebit.l[3].d.ebit.n + stock.quarterly_ebit.l[4].d.ebit.n

\* the record is not excluded and passes the gates before the quarterly EBIT
ReachesEbitGates(stock) ==
    /\ ~MatchesExclusionRule(stock)
    /\ ~Truthy(stock.error)
    /\ stock.currency \in {Str(<<"SEK">>), NA}
    /\ stock.enterprise_value.t = "num"

\* ... and the quarterly-EBIT gates, so that it reaches the balance sheet
ReachesBalanceSheet(stock) ==
    /\ ReachesEbitGates(stock)
    /\ FourNumericQuarters(stock)
    /\ FourQuarterSum(stock) > 0

\* ... and has its four fields, so that invested capital is computed
ReachesCapital(stock) ==
    /\ ReachesBalanceSheet(stock)
    /\ SuppliesAllFields(stock)

\* ... with positive invested capital, so that the ratios are computed
ReachesRatios(stock) ==
    /\ ReachesCapital(stock)
    /\ StatedCapital(stock) > 0

\* no variant has a score or a rank
UnscoredEverywhere(stock) ==
    \A v \in Suffixes :
        /\ stock.magic_formula_score[v] = NA
        /\ stock.ey_rank[v] = NA
        /\ stock.roc_rank[v] = NA

\* value is the percentage 100 * p / q
IsPercentage(value, p, q) ==
    /\ value.t = "frac"
    /\ value.p * q = 100 * p * value.q

\* C13: after calculate_all_score_variants, for every record with a numeric
\* default score whose most recent balance-sheet entry supplies the four
\* numbers, earnings_yield is 100 * TTM EBIT / enterprise_value and
\* return_on_capital is 100 * TTM EBIT / IC, with
\* IC = total_assets - cash - current_liabilities + short_term_debt of that
\* entry, IC > 0 and enterprise_value > 0.  A record whose IC is <= 0 is scored
\* in no variant, and when it reaches the invested-capital gate its reason is
\* "Negativt eller noll investerat kapital".
C13_RatiosFromTtmAndCapital ==
    Returned =>
        \A k \in 1..Len(stocks) :
            /\ (IsScore(stocks[k].magic_formula_score[""]) /\ SuppliesAllFields(stocks[k]))
               => /\ FourNumericQuarters(stocks[k])
                  /\ stocks[k].enterprise_value.t = "num"
                  /\ stocks[k].enterprise_value.n > 0
                  /\ StatedCapital(stocks[k]) > 0
                  /\ IsPercentage(stocks[k].earnings_yield, FourQuarterSum(stocks[k]),
                                  stocks[k].enterprise_value.n)
                  /\ IsPercentage(stocks[k].return_on_capital, FourQuarterSum(stocks[k]),
                                  StatedCapital(stocks[k]))
            /\ (SuppliesAllFields(stocks[k]) /\ StatedCapital(stocks[k]) <= 0)
               => /\ UnscoredEverywhere(stocks[k])
                  /\ ReachesCapital(stocks[k])
                     => stocks[k].magic_formula_reason
                          = Reason("Negativt eller noll investerat kapital")

\* a scored record with IC 750, next to a record with IC <= 0 that
\* reaches the invested-capital gate
C13_Witness ==
    /\ Returned
    /\ IsScore(stocks[2].magic_formula_score[""])
    /\ StatedCapital(stocks[2]) = 750
    /\ ReachesCapital(stocks[1])
    /\ StatedCapital(stocks[1]) <= 0
    /\ stocks[1].magic_formula_reason = Reason("Negativt eller noll investerat kapital")


\* the first of the four fields for which the entry supplies no number
FirstMissingField(stock) ==
    CHOOSE i \in 1..4 :
        /\ RecentQuarter(stock)[BalanceSheetFields[i]].t # "num"
        /\ \A j \in 1..(i - 1) : RecentQuarter(stock)[BalanceSheetFields[j]].t = "num"

MissingFieldReasons ==
    << Reason("Saknar Total Assets i kvartalsdata"),
       Reason("Saknar Current Liabilities i kvartalsdata"),
       Reason("Saknar Cash i kvartalsdata"),
       Reason("Saknar Short-term Debt i kvartalsdata") >>

\* C14: after calculate_all_score_variants a record whose most recent
\* balance-sheet entry supplies no number for one of total_assets,
\* current_liabilities, cash, short_term_debt (the field is absent, null or
\* "N/A") is scored in no variant, and when it reaches the balance-sheet gates
\* its reason names the first such field in that order.
C14_MissingFieldNeverScored ==
    Returned =>
        \A k \in 1..Len(stocks) :
            (HasRecentQuarter(stocks[k]) /\ ~SuppliesAllFields(stocks[k]))
            => /\ UnscoredEverywhere(stocks[k])
               /\ ReachesBalanceSheet(stocks[k])
                  => stocks[k].magic_formula_reason
                       = MissingFieldReasons[FirstMissingField(stocks[k])]


\* the reason of the sanity bound, whatever the two magnitudes it embeds
IsSanityBoundReason(reason) ==
    /\ reason.t = "str"
    /\ Len(reason.s) > 0
    /\ reason.s[1] = "Investerat kapital för litet för meningsfull beräkning "

\* the absolute value of the four-quarter sum
AbsTtm(stock) ==
    IF FourQuarterSum(stock) < 0 THEN 0 - FourQuarterSum(stock) ELSE FourQuarterSum(stock)

\* C15: after calculate_all_score_variants a record whose invested capital is
\* less than 5% of |TTM EBIT| (20 * IC < |TTM EBIT|) is scored in no variant,
\* and when it reaches the ratios (not excluded, earlier gates passed, IC > 0)
\* its reason is the "Investerat kapital för litet" one.  A record that reaches
\* the ratios with IC >= 5% of |TTM EBIT| does not get that reason, and is
\* scored when its enterprise value is positive; IC exactly at the bound passes.
C15_SanityBound ==
    Returned =>
        \A k \in 1..Len(stocks) :
            (SuppliesAllFields(stocks[k]) /\ FourNumericQuarters(stocks[k])) =>
                /\ 20 * StatedCapital(stocks[k]) < AbsTtm(stocks[k])
                   => /\ UnscoredEverywhere(stocks[k])
                      /\ ReachesRatios(stocks[k])
                         => IsSanityBoundReason(stocks[k].magic_formula_reason)
                /\ (ReachesRatios(stocks[k])
                      /\ 20 * StatedCapital(stocks[k]) >= AbsTtm(stocks[k]))
                   => /\ ~IsSanityBoundReason(stocks[k].magic_formula_reason)
                      /\ stocks[k].enterprise_value.n > 0
                         => IsScore(stocks[k].magic_formula_score[""])

\* IC 15 with TTM EBIT 400 is rejected with the reason embedding both
\* magnitudes, next to IC 750 with TTM EBIT 400 and to IC 20, exactly 5% of
\* TTM EBIT 400, both scored
C15_Witness ==
    /\ Returned
    /\ ReachesRatios(stocks[1])
    /\ StatedCapital(stocks[1]) = 15 /\ FourQuarterSum(stocks[1]) = 400
    /\ stocks[1].magic_formula_reason
         = Str(<<"Investerat kapital för litet för meningsfull beräkning ",
                 "(IC: ", "150.0M", ", EBIT: ", "4000.0M", ")">>)
    /\ \E k \in 1..Len(stocks) :
          /\ StatedCapital(stocks[k]) = 750 /\ FourQuarterSum(stocks[k]) = 400
          /\ IsScore(stocks[k].magic_formula_score[""])
    /\ \E k \in 1..Len(stocks) :
          /\ StatedCapital(stocks[k]) = 20 /\ FourQuarterSum(stocks[k]) = 400
          /\ IsScore(stocks[k].magic_formula_score[""])


InsufficientQuarters == Reason("Saknar kvartalsdata för EBIT (behöver 4 kvartal)")
CannotComputeTtm == Reason("Kunde inte beräkna EBIT TTM från kvartalsdata")

\* C16: after calculate_all_score_variants a record that reaches the
\* quarterly-EBIT gates passes them (gets neither of their two reasons) if and
\* only if quarterly_ebit is a list of at least 4 entries, each of the first
\* four has a numeric ebit, and the sum of those four is > 0; a scored record
\* has earnings_yield and return_on_capital computed from exactly that sum,
\* whatever the entries after the fourth; fewer than 4 entries give the
\* insufficient-quarterly-data reason and a four-quarter sum <= 0 the
\* cannot-compute-TTM reason.
C16_QuarterlyEbitGates ==
    Returned =>
        \A k \in 1..Len(stocks) :
            /\ ReachesEbitGates(stocks[k]) =>
                 /\ stocks[k].magic_formula_reason \notin {InsufficientQuarters, CannotComputeTtm}
                    <=> (FourNumericQuarters(stocks[k]) /\ FourQuarterSum(stocks[k]) > 0)
                 /\ (stocks[k].quarterly_ebit.t = "list" /\ Len(stocks[k].quarterly_ebit.l) < 4)
                    => stocks[k].magic_formula_reason = InsufficientQuarters
                 /\ (FourNumericQuarters(stocks[k]) /\ FourQuarterSum(stocks[k]) <= 0)
                    => stocks[k].magic_formula_reason = CannotComputeTtm
            /\ (IsScore(stocks[k].magic_formula_score[""]) /\ SuppliesAllFields(stocks[k])) =>
                 /\ IsPercentage(stocks[k].earnings_yield, FourQuarterSum(stocks[k]),
                                 stocks[k].enterprise_value.n)
                 /\ IsPercentage(stocks[k].return_on_capital, FourQuarterSum(stocks[k]),
                                 StatedCapital(stocks[k]))

\* a record with five entries, the fifth -1000, is scored from the sum 400 of
\* its first four
C16_Witness ==
    /\ Returned
    /\ Len(stocks[1].quarterly_ebit.l) = 5
    /\ stocks[1].quarterly_ebit.l[5].d.ebit = Num(0 - 1000)
    /\ IsScore(stocks[1].magic_formula_score[""])
    /\ stocks[1].earnings_yield = Frac(40000, 2000)


\* the first gate the record fails, in the order: fetch error, currency,
\* enterprise value, four quarters, TTM EBIT, balance sheet, its four fields,
\* invested capital, positive EY and RoC, sanity bound
EarliestFailingGate(stock) ==
    IF Truthy(stock.error) THEN "error"
    ELSE IF stock.currency \notin {Str(<<"SEK">>), NA} THEN "currency"
    ELSE IF stock.enterprise_value \in {NA, None} THEN "enterprise_value"
    ELSE IF stock.quarterly_ebit.t # "list" \/ Len(stock.quarterly_ebit.l) < 4
    THEN "quarters"
    ELSE IF ~(FourNumericQuarters(stock) /\ FourQuarterSum(stock) > 0) THEN "ttm"
    ELSE IF ~HasRecentQuarter(stock) THEN "balance_sheet"
    ELSE IF ~SuppliesAllFields(stock) THEN "field"
    ELSE IF StatedCapital(stock) <= 0 THEN "invested_capital"
    ELSE IF stock.enterprise_value.n <= 0 THEN "positivity"
    ELSE IF 20 * StatedCapital(stock) < AbsTtm(stock) THEN "sanity_bound"
    ELSE "none"

\* the record carries the reason of the gate
CarriesReasonOf(stock, gate) ==
    CASE gate = "error" -> stock.magic_formula_reason = Reason("Fel vid hämtning av data")
      [] gate = "currency" ->
            stock.magic_formula_reason
              = Str(<<"Valuta är ">> \o stock.currency.s \o <<", endast SEK-aktier beräknas">>)
      [] gate = "enterprise_value" ->
            stock.magic_formula_reason = Reason("Saknar Enterprise Value")
      [] gate = "quarters" -> stock.magic_formula_reason = InsufficientQuarters
      [] gate = "ttm" -> stock.magic_formula_reason = CannotComputeTtm
      [] gate = "balance_sheet" ->
            stock.magic_formula_reason = Reason("Saknar kvartalsdata för balansräkning")
      [] gate = "field" ->
            stock.magic_formula_reason = MissingFieldReasons[FirstMissingField(stock)]
      [] gate = "invested_capital" ->
            stock.magic_formula_reason = Reason("Negativt eller noll investerat kapital")
      [] gate = "positivity" ->
            stock.magic_formula_reason = Reason("Negativ/noll Earnings Yield")
      [] gate = "sanity_bound" -> IsSanityBoundReason(stock.magic_formula_reason)
      [] OTHER -> stock.magic_formula_reason = Reason("Beräknad")

\* each of the four fields of the entry is a number, null or absent
FieldsNumbersOrNull(stock) ==
    HasRecentQuarter(stock) =>
        \A i \in 1..4 :
            RecentQuarter(stock)[BalanceSheetFields[i]].t \in {"num", "None", "absent"}

\* C17: after calculate_all_score_variants a record that is not excluded
\* carries the reason of the earliest gate it fails, in the order: fetch error,
\* currency, enterprise value missing, fewer than 4 quarterly EBIT entries, TTM
\* EBIT not positive, balance sheet missing, one of its four fields missing,
\* invested capital <= 0, EY or RoC not positive, invested capital below the
\* 5% bound; so enterprise value <= 0 with invested capital below the bound
\* gives the non-positive-EY reason.
C17_EarliestGateGivesReason ==
    Returned =>
        \A k \in 1..Len(stocks) :
            (~MatchesExclusionRule(stocks[k]) /\ FieldsNumbersOrNull(stocks[k]))
            => CarriesReasonOf(stocks[k], EarliestFailingGate(stocks[k]))

\* the same with the last two gates in the order of the code: the 5% bound
\* is tested before the positivity of EY and RoC
ReasonInCodeOrder(stock) ==
    IF /\ EarliestFailingGate(stock) = "positivity"
       /\ 20 * StatedCapital(stock) < AbsTtm(stock)
    THEN IsSanityBoundReason(stock.magic_formula_reason)
    ELSE CarriesReasonOf(stock, EarliestFailingGate(stock))

\* what holds of the code: the reasons follow the order of its tests
ReasonsFollowCodeOrder ==
    Returned =>
        \A k \in 1..Len(stocks) :
            (~MatchesExclusionRule(stocks[k]) /\ FieldsNumbersOrNull(stocks[k]))
            => ReasonInCodeOrder(stocks[k])


\* case-insensitive substring test on a text field; no text, no match
FieldContains(v, keyword) == v.t = "str" /\ Contains(keyword, Lower(v.s))
FieldContainsAny(v, keywords) == \E keyword \in keywords : FieldContains(v, keyword)

\* the six rules as stated
StatedExclusionRules(stock) ==
    \/ Truthy(stock.default_excluded) \/ Truthy(stock.exclusion_reason)
    \/ FieldContains(stock.sector, kw_financial)
    \/ FieldContains(stock.industry, kw_financial)
    \/ FieldContains(stock.sector, kw_real_estate)
    \/ FieldContains(stock.industry, kw_real_estate)
    \/ FieldContains(stock.sector, <<"b","a","n","k">>)
    \/ FieldContains(stock.industry, <<"b","a","n","k">>)
    \/ FieldContains(stock.name, <<"b","a","n","k">>)
    \/ FieldContainsAny(stock.name, bank_names)
    \/ FieldContainsAny(stock.ticker, bank_tickers)
    \/ FieldContainsAny(stock.name, investment_keywords)
    \/ FieldContainsAny(stock.ticker, {kw_ratos, kw_lund})
    \/ FieldContains(stock.industry, kw_investment)
    \/ FieldContains(stock.industry, kw_asset_management)

\* the record passes every gate of the extractor
PassesEveryGate(stock) ==
    /\ ~Truthy(stock.error)
    /\ stock.currency \in {Str(<<"SEK">>), NA}
    /\ stock.enterprise_value.t = "num" /\ stock.enterprise_value.n > 0
    /\ FourNumericQuarters(stock) /\ FourQuarterSum(stock) > 0
    /\ SuppliesAllFields(stock) /\ StatedCapital(stock) > 0
    /\ 20 * StatedCapital(stock) >= AbsTtm(stock)

\* C18: is_financial_company(record) is true if and only if one of the six
\* rules matches: flags; "financial" in sector or industry; "real estate" in
\* sector or industry; "bank" in sector, industry or name, or the bank denylist
\* in name or ticker; an investment-company keyword in the name or a holding
\* fragment in the ticker; "investment" or "asset management" in industry.
\* Observed after calculate_all_score_variants on records that pass every gate:
\* such a record has a default score exactly when the classifier lets it in.
C18_ExcludedIffRuleMatches ==
    Returned =>
        \A k \in 1..Len(stocks) :
            PassesEveryGate(stocks[k]) =>
                (~IsScore(stocks[k].magic_formula_score[""])
                   <=> StatedExclusionRules(stocks[k]))


\* the batch as the default pass of calculate_all_score_variants leaves it
AfterDefaultPass(batch) ==
    Pass([k \in 1..Len(batch) |-> ResetScores(batch[k])], 0, "").stocks

\* record after differs from record before in nothing but the score and rank
\* fields of the market-cap variants
OnlyVariantFieldsDiffer(before, after) ==
    /\ [after EXCEPT !.magic_formula_score = before.magic_formula_score,
                     !.ey_rank = before.ey_rank,
                     !.roc_rank = before.roc_rank] = before
    /\ after.magic_formula_score[""] = before.magic_formula_score[""]
    /\ after.ey_rank[""] = before.ey_rank[""]
    /\ after.roc_rank[""] = before.roc_rank[""]

\* C19: in every call of calculate_all_score_variants that returns, the four
\* market-cap passes leave magic_formula_reason, magic_formula_ebit_periods,
\* magic_formula_balance_sheet_period and magic_formula_uses_ttm of every
\* record as the default pass left them; between the default pass and the
\* return only score and rank fields of the market-cap variants change.
C19_VariantPassesKeepSharedFields ==
    [][(CalculateAllScoreVariants /\ exc' = "none") =>
          LET default == AfterDefaultPass(stocks) IN
          \A k \in 1..Len(stocks) :
              /\ stocks'[k].magic_formula_reason = default[k].magic_formula_reason
              /\ stocks'[k].magic_formula_ebit_periods
                   = default[k].magic_formula_ebit_periods
              /\ stocks'[k].magic_formula_balance_sheet_period
                   = default[k].magic_formula_balance_sheet_period
              /\ stocks'[k].magic_formula_uses_ttm = default[k].magic_formula_uses_ttm
              /\ OnlyVariantFieldsDiffer(default[k], stocks'[k])]_vars

\* a market-cap pass has scored one record of its pool, whose periods it
\* copies, and has left another record of its pool unscored
C19_Witness ==
    /\ Returned
    /\ \E k \in 1..Len(stocks) :
          /\ IsScore(stocks[k].magic_formula_score["_1b"])
          /\ stocks[k].magic_formula_ebit_periods # NA
          /\ stocks[k].magic_formula_uses_ttm = Bool(TRUE)
    /\ \E k \in 1..Len(stocks) :
          /\ ~MatchesExclusionRule(stocks[k])
          /\ meets_market_cap_threshold(stocks[k], 100)
          /\ stocks[k].magic_formula_score["_1b"] = NA
          /\ stocks[k].magic_formula_reason = InsufficientQuarters


\* C20: generate_html on records scored by calculate_all_score_variants
\* leaves magic_formula_score, ey_rank, roc_rank and magic_formula_reason of
\* every record unchanged, so what is rendered is what the engine wrote.
C20_RenderingKeepsEngineFields ==
    [][GenerateHtml =>
          \A k \in 1..Len(stocks) :
              /\ stocks'[k].magic_formula_score = stocks[k].magic_formula_score
              /\ stocks'[k].ey_rank = stocks[k].ey_rank
              /\ stocks'[k].roc_rank = stocks[k].roc_rank
              /\ stocks'[k].magic_formula_reason = stocks[k].magic_formula_reason]_vars


\* the entries of the history stored under a date earlier than the current day
PastEntries(h, day) == { e \in h : e.date < day }

\* C21: over any sequence of add_to_history and
\* update_history_with_calculated_scores calls on successive days the history
\* holds at most one entry per ticker and date, an entry stored under a date
\* earlier than the current day is never changed or replaced, and the entries
\* a call adds are under the current day.
C21_PastEntriesAreKept ==
    [][ /\ \A e \in history', f \in history' :
              (e.ticker = f.ticker /\ e.date = f.date) => e = f
        /\ PastEntries(history, today) \subseteq history'
        /\ \A e \in history' \ history : e.date >= today ]_vars


\* the record has a numeric default score and numeric default ranks
FullyRanked(stock) ==
    /\ IsNumber(stock.magic_formula_score[""])
    /\ IsNumber(stock.ey_rank[""])
    /\ IsNumber(stock.roc_rank[""])

\* the record has the score "N/A" and no numeric default rank
FullyUnranked(stock) ==
    /\ stock.magic_formula_score[""] = NA
    /\ ~IsNumber(stock.ey_rank[""])
    /\ ~IsNumber(stock.roc_rank[""])

\* C22: after a call of calculate_magic_formula_for_stocks has returned, also
\* on records that carry ranks of an earlier pass, every record has a numeric
\* score with both ranks numeric, or the score "N/A" and no numeric rank.
C22_NoPartialRank ==
    (last = "calculate_magic_formula_for_stocks" /\ exc = "none") =>
        \A k \in 1..Len(stocks) : FullyRanked(stocks[k]) \/ FullyUnranked(stocks[k])


\* the record's market cap is a number at or above the floor
AtOrAboveFloor(stock, min_cap) ==
    stock.market_cap.t = "num" /\ stock.market_cap.n >= min_cap

\* the record is scored and ranked in the default variant and in the variant
\* of every floor its market cap meets
ScoredWhereverEligible(stock) ==
    /\ IsScore(stock.magic_formula_score[""]) /\ Ranked(stock, "")
    /\ \A t \in 1..Len(market_cap_thresholds) :
          AtOrAboveFloor(stock, market_cap_thresholds[t].min_cap) =>
              /\ IsScore(stock.magic_formula_score[market_cap_thresholds[t].suffix])
              /\ Ranked(stock, market_cap_thresholds[t].suffix)

\* C23: after calculate_all_score_variants every record that matches no
\* exclusion rule and passes every gate has a numeric default score and ranks,
\* and a numeric score and ranks in the variant of each floor it meets, whether
\* or not its ticker is present and different from the other records' tickers.
C23_EveryEligibleRecordScored ==
    Returned =>
        \A k \in 1..Len(stocks) :
            (~MatchesExclusionRule(stocks[k]) /\ PassesEveryGate(stocks[k]))
                => ScoredWhereverEligible(stocks[k])


\* the two records have the same earnings yield, the same return on capital
SameEarningsYield(a, b) ==
    TtmEbit(a) * EnterpriseValue(b) = TtmEbit(b) * EnterpriseValue(a)
SameReturnOnCapital(a, b) ==
    TtmEbit(a) * CapitalOf(b) = TtmEbit(b) * CapitalOf(a)

\* C24: ties are broken by the stability of the two sorts.  Of two records
\* ranked in a variant with equal earnings yield, the one earlier in the pool
\* has the smaller ey_rank; of two with equal return on capital, the one with
\* the smaller ey_rank has the smaller roc_rank.
C24_TiesKeepEarlierOrder ==
    Returned =>
        \A v \in Suffixes : \A a, b \in RankedIn(v) :
            /\ (a < b /\ SameEarningsYield(stocks[a], stocks[b]))
                 => stocks[a].ey_rank[v].n < stocks[b].ey_rank[v].n
            /\ (stocks[a].ey_rank[v].n < stocks[b].ey_rank[v].n
                  /\ SameReturnOnCapital(stocks[a], stocks[b]))
                 => stocks[a].roc_rank[v].n < stocks[b].roc_rank[v].n

\* two ranked records tie on earnings yield; two tie on return on capital with
\* the later one of the pool ahead on earnings yield
C24_Witness ==
    /\ Returned
    /\ \E a, b \in RankedIn("") :
          a < b /\ SameEarningsYield(stocks[a], stocks[b])
    /\ \E a, b \in RankedIn("") :
          /\ a < b /\ SameReturnOnCapital(stocks[a], stocks[b])
          /\ stocks[b].ey_rank[""].n < stocks[a].ey_rank[""].n
          /\ stocks[b].roc_rank[""].n < stocks[a].roc_rank[""].n


\* neither the flag nor an exclusion text
Unflagged(stock) ==
    ~Truthy(stock.default_excluded) /\ ~Truthy(stock.exclusion_reason)

\* C25: the reason calculate_magic_formula_for_stocks gives an excluded record
\* follows the first matching rule in the order flag or exclusion text,
\* financial sector or industry, real estate, bank, investment-company name,
\* investment industry.  An unflagged record whose sector contains "financial"
\* and whose name contains "bank" gets "Exkluderad: Finansiellt bolag"; an
\* unflagged real-estate record named as a bank gets the real-estate reason; a
\* record with default_excluded set and no exclusion text gets
\* "Exkluderad från ranking".
C25_ReasonOfFirstMatchingRule ==
    last = "calculate_magic_formula_for_stocks" =>
        \A k \in 1..Len(stocks) :
            /\ ( /\ Unflagged(stocks[k])
                 /\ FieldContains(stocks[k].sector, kw_financial)
                 /\ FieldContainsAny(stocks[k].name, bank_keywords) )
               => stocks[k].magic_formula_reason = Reason("Exkluderad: Finansiellt bolag")
            /\ ( /\ Unflagged(stocks[k])
                 /\ ~FieldContains(stocks[k].sector, kw_financial)
                 /\ ~FieldContains(stocks[k].industry, kw_financial)
                 /\ FieldContains(stocks[k].sector, kw_real_estate)
                 /\ FieldContainsAny(stocks[k].name, bank_keywords) )
               => stocks[k].magic_formula_reason = Reason("Exkluderad: Fastighetsbolag")
            /\ (Truthy(stocks[k].default_excluded) /\ ~Truthy(stocks[k].exclusion_reason))
               => stocks[k].magic_formula_reason = Reason("Exkluderad från ranking")


\* the record holds the quarterly balance sheet the fetch stores when the
\* provider supplies every row in both columns
FromCompleteProviderData(stock) ==
    stock.quarterly_balance_sheet
        = List(quarterly_balance_sheet_data(<<CompleteColumn, CompleteColumn>>, 1))

\* total assets - cash - current liabilities + short-term debt, as supplied
ProviderCapital(column) ==
    column.total_assets.n - column.cash.n
        - column.current_liabilities.n + column.short_term_debt.n

\* C26: a record fetched from complete provider data can pass the
\* balance-sheet gate.  The quarterly_balance_sheet entry the fetch stores
\* holds total_assets, current_liabilities, cash and short_term_debt, and a
\* fresh SEK record that is not excluded and has positive TTM EBIT, enterprise
\* value and invested capital has a numeric default score after
\* calculate_all_score_variants.
C26_FetchedRecordIsScored ==
    Returned =>
        \A k \in 1..Len(stocks) :
            ( /\ FromCompleteProviderData(stocks[k])
              /\ ~MatchesExclusionRule(stocks[k])
              /\ ~Truthy(stocks[k].error)
              /\ stocks[k].currency = Str(<<"SEK">>)
              /\ FourNumericQuarters(stocks[k]) /\ FourQuarterSum(stocks[k]) > 0
              /\ stocks[k].enterprise_value.t = "num" /\ stocks[k].enterprise_value.n > 0
              /\ ProviderCapital(CompleteColumn) > 0 )
            => /\ SuppliesAllFields(stocks[k])
               /\ IsScore(stocks[k].magic_formula_score[""])


\* the suffixes of the variants from the lowest floor (none) to the highest
VariantsByFloor == [t \in 1..Len(passes) |-> passes[t].suffix]

\* the record's ranks in variant low are at least its ranks in variant high
RanksAtLeast(stock, low, high) ==
    /\ stock.ey_rank[low].n >= stock.ey_rank[high].n
    /\ stock.roc_rank[low].n >= stock.roc_rank[high].n

\* a is ahead of b by both ranks of variant low exactly as in variant high
SameOrder(a, b, low, high) ==
    /\ (a.ey_rank[low].n < b.ey_rank[low].n) <=> (a.ey_rank[high].n < b.ey_rank[high].n)
    /\ (a.roc_rank[low].n < b.roc_rank[low].n) <=> (a.roc_rank[high].n < b.roc_rank[high].n)

\* C27: the pools of the variants are nested.  A record ranked in the variant
\* of a floor is ranked in the variant of every lower floor and in the default
\* variant, its ranks there are at least as large, and two records ranked in
\* both variants are in the same order by each rank.
C27_VariantPoolsNested ==
    Returned =>
        \A i, j \in 1..Len(VariantsByFloor) :
            i < j =>
                /\ \A k \in RankedIn(VariantsByFloor[j]) :
                      /\ k \in RankedIn(VariantsByFloor[i])
                      /\ RanksAtLeast(stocks[k], VariantsByFloor[i], VariantsByFloor[j])
                /\ \A a, b \in RankedIn(VariantsByFloor[j]) :
                      (a \in RankedIn(VariantsByFloor[i]) /\ b \in RankedIn(VariantsByFloor[i]))
                          => SameOrder(stocks[a], stocks[b],
                                       VariantsByFloor[i], VariantsByFloor[j])

\* two records ranked at the 500M floor, behind a record that is ranked at
\* the 100M floor only: their ranks at 100M are larger than at 500M
C27_Witness ==
    /\ Returned
    /\ \E a, b \in RankedIn("_500m") :
          /\ a # b
          /\ stocks[a].ey_rank["_100m"].n > stocks[a].ey_rank["_500m"].n
          /\ stocks[b].ey_rank["_100m"].n > stocks[b].ey_rank["_500m"].n
    /\ \E k \in RankedIn("_100m") : k \notin RankedIn("_500m")


\* the reasons of the final check that name something else than the earnings yield
UnreachableReasons ==
    { Reason("Negativ EBIT (förluster)"), Reason("Negativ/noll Return on Capital"),
      Reason("Kan inte beräkna") }

NonPositiveEarningsYield == Reason("Negativ/noll Earnings Yield")

\* C28: the final positivity check fails only because the enterprise value is
\* <= 0.  No record gets "Negativ EBIT (förluster)", "Negativ/noll Return on
\* Capital" or "Kan inte beräkna"; a record with the earnings-yield reason has
\* an enterprise value <= 0, and a record that reaches the ratios without a
\* score or the sanity-bound reason has that reason; a record that reaches the
\* quarterly-EBIT gates with a negative TTM EBIT gets the cannot-compute-TTM
\* reason.
C28_PositivityFailsOnEnterpriseValue ==
    (exc = "none" /\ last # "fetch") =>
        \A k \in 1..Len(stocks) :
            /\ stocks[k].magic_formula_reason \notin UnreachableReasons
            /\ stocks[k].magic_formula_reason = NonPositiveEarningsYield
                 => /\ stocks[k].enterprise_value.t = "num"
                    /\ stocks[k].enterprise_value.n <= 0
            /\ ( /\ ReachesRatios(stocks[k])
                 /\ 20 * StatedCapital(stocks[k]) >= AbsTtm(stocks[k])
                 /\ stocks[k].enterprise_value.n <= 0 )
                 => stocks[k].magic_formula_reason = NonPositiveEarningsYield
            /\ ( /\ ReachesEbitGates(stocks[k])
                 /\ FourNumericQuarters(stocks[k])
                 /\ FourQuarterSum(stocks[k]) < 0 )
                 => stocks[k].magic_formula_reason = CannotComputeTtm

\* a record that passes every gate before the final check has enterprise
\* value 0 and gets the earnings-yield reason
C28_Witness ==
    /\ Returned
    /\ ReachesRatios(stocks[1])
    /\ 20 * StatedCapital(stocks[1]) >= AbsTtm(stocks[1])
    /\ stocks[1].enterprise_value = Num(0)
    /\ stocks[1].magic_formula_reason = NonPositiveEarningsYield


\* the score and rank fields of the records of a batch
ScoresAndRanks(batch) ==
    [k \in 1..Len(batch) |->
        <<batch[k].magic_formula_score, batch[k].ey_rank, batch[k].roc_rank>>]

\* C29: the consistency sweep of recalculate_all_scores changes no score.  The
\* score and rank fields of the store recalculate_all_scores saves are those
\* calculate_all_score_variants returned for the loaded records.
C29_SweepChangesNoScore ==
    [][ (RecalculateAllScores /\ exc' = "none") =>
            ScoresAndRanks(stocks')
                = ScoresAndRanks(calculate_all_score_variants(stocks).stocks) ]_vars

\* recalculate_all_scores has saved a record that is scored in the default
\* variant and has neither rank nor score at the highest floor, next to a
\* record without any rank
C29_Witness ==
    /\ last = "recalculate_all_scores" /\ exc = "none"
    /\ \E k \in 1..Len(stocks) :
          /\ IsScore(stocks[k].magic_formula_score[""])
          /\ RankMissing(stocks[k], "_5b")
          /\ stocks[k].magic_formula_score["_5b"] = NA
    /\ \E k \in 1..Len(stocks) :
          RankMissing(stocks[k], "") /\ stocks[k].magic_formula_score[""] = NA


\* the raw input fields of a record
RawFields(stock) ==
    << stock.ticker, stock.name, stock.currency, stock.error, stock.enterprise_value,
       stock.market_cap, stock.quarterly_ebit, stock.quarterly_balance_sheet,
       stock.sector, stock.industry, stock.default_excluded, stock.exclusion_reason >>

\* C30: calculate_all_score_variants changes derived fields only.  The batch
\* it returns holds the input records in their order, each with its raw input
\* fields as they were.
C30_RawFieldsUnchanged ==
    [][ (CalculateAllScoreVariants /\ exc' = "none") =>
            /\ Len(stocks') = Len(stocks)
            /\ \A k \in 1..Len(stocks) : RawFields(stocks'[k]) = RawFields(stocks[k]) ]_vars

\* calculate_all_score_variants has returned a batch with a scored record, a
\* flagged record and a record that failed a gate
C30_Witness ==
    /\ Returned
    /\ \E k \in 1..Len(stocks) : IsScore(stocks[k].magic_formula_score["_100m"])
    /\ \E k \in 1..Len(stocks) : Truthy(stocks[k].default_excluded)
    /\ \E k \in 1..Len(stocks) :
          stocks[k].magic_formula_reason = InsufficientQuarters

====
